---- MODULE Spec2Model ----
(***************************************************************************)
(* BigSwapEnergy: Uniswap V2 swap estimation.                              *)
(*                                                                         *)
(* math/big integers are modelled as Go's big.nat: a little-endian         *)
(* sequence of limbs in base 256 with no high zero limb (zero is <<>>).    *)
(* All arithmetic is done limb by limb, so values are unbounded as in the  *)
(* program.                                                                *)
(***************************************************************************)
EXTENDS Integers, Sequences, FiniteSets, Bags, TLC

VARIABLES
    \* swap math engine (utils.CalculateSwapAmount)
    mpc, amountIn, amountIn2, reserveIn, reserveOut, feeBasisPoints,
    amountOut, amountOut2, amountOutRet,
    \* fixed-width decoder (utils.ParseReserves)
    dpc, reserveData, enc0, enc1, encTs, reserve0, reserve1,
    \* quote orchestrator (EstimateServiceImpl.EstimateSwapAmount)
    pc, poolAddress, srcToken, dstToken, srcAmount, pool, src, dst,
    blockNumber, token0Data, token1Data, token0, token1, err, cause, calls,
    acquired, released,
    \* reserve orderer called a second time with src and dst exchanged
    opc, reserveInRev, reserveOutRev, errRev,
    \* goroutines sharing utils.GlobalBigIntPool: the big.Int objects, the
    \* pool, and each goroutine's position, job, locals and results
    heap, free, gpc, job, loc, borrowed, returned, results, misuse,
    blockNumberOf, reads,
    \* HTTP handler of /estimate (EstimateHandler.EstimateSwapAmount)
    hpc, query, svcAmount, svcError, svcArg, herr, response,
    \* rate limiter (RateLimitMiddleware) and the wall clock
    clock, rpm, clients, reqs,
    \* server process (cmd/server/main.go): main routine, health-check
    \* goroutine, channels, HTTP server and the requests it served
    mainpc, healthpc, quit, serverError, srv, healthCheckDone, ethClosed,
    sigCount, healthChecks, served,
    \* storage key builder (UniswapV2ClientImpl.ReadStorageSlot)
    slotpc, slotIndex, storageKey

mathVars == <<mpc, amountIn, amountIn2, reserveIn, reserveOut, feeBasisPoints,
              amountOut, amountOut2, amountOutRet>>

decVars == <<dpc, reserveData, enc0, enc1, encTs, reserve0, reserve1>>

estVars == <<pc, poolAddress, srcToken, dstToken, srcAmount, pool, src, dst,
             blockNumber, token0Data, token1Data, token0, token1, err, cause,
             calls, acquired, released>>

ordVars == <<opc, reserveInRev, reserveOutRev, errRev>>

poolVars == <<heap, free, gpc, job, loc, borrowed, returned, results, misuse,
              blockNumberOf, reads>>

httpVars == <<hpc, query, svcAmount, svcError, svcArg, herr, response>>

limVars == <<clock, rpm, clients, reqs>>

srvVars == <<mainpc, healthpc, quit, serverError, srv, healthCheckDone,
             ethClosed, sigCount, healthChecks, served>>

slotVars == <<slotpc, slotIndex, storageKey>>

webVars == <<httpVars, limVars, srvVars, slotVars>>

vars == <<mathVars, decVars, estVars, ordVars, poolVars, webVars>>


\* A nil *big.Int, and a call that panicked: neither is a number (no limb
\* is negative)
Nil == <<-1>>
Panic == <<-2>>

\* a *big.Int argument that may be nil or negative
NilInt == [nil |-> TRUE, neg |-> FALSE, abs |-> <<>>]

\* no error, no address, no string
NoErr == "none"
NoAddr == "none"

\* the components a specification does not exercise
DecIdle ==
    /\ dpc = "idle"
    /\ reserveData = <<>>
    /\ enc0 = Nil /\ enc1 = Nil /\ encTs = Nil
    /\ reserve0 = Nil /\ reserve1 = Nil

EstIdle ==
    /\ pc = "idle"
    /\ poolAddress = "" /\ srcToken = "" /\ dstToken = ""
    /\ srcAmount = NilInt
    /\ pool = NoAddr /\ src = NoAddr /\ dst = NoAddr
    /\ blockNumber = 0
    /\ token0Data = <<>> /\ token1Data = <<>>
    /\ token0 = NoAddr /\ token1 = NoAddr
    /\ err = NoErr /\ cause = NoErr
    /\ calls = <<>>
    /\ acquired = 0 /\ released = 0

OrdIdle ==
    /\ opc = "idle"
    /\ reserveInRev = Nil /\ reserveOutRev = Nil
    /\ errRev = NoErr

PoolIdle ==
    /\ heap = <<>>
    /\ free = EmptyBag
    /\ gpc = <<>> /\ job = <<>> /\ loc = <<>>
    /\ borrowed = <<>> /\ returned = <<>> /\ results = <<>>
    /\ misuse = FALSE
    /\ blockNumberOf = <<>> /\ reads = <<>>

\* an error value: the sentinel it is or wraps ("none": no error, "other":
\* an error that wraps no sentinel), and whether it is a wrapper made by
\* fmt.Errorf("%w ...") rather than the sentinel itself
ErrorValue(sentinel, wrapped) == [is |-> sentinel, wrapped |-> wrapped]

NoError == ErrorValue("none", FALSE)

HttpIdle ==
    /\ hpc = "idle"
    /\ query = <<>>
    /\ svcAmount = Nil /\ svcError = NoError /\ svcArg = Nil
    /\ herr = NoError
    /\ response = [status |-> 0, contentType |-> "", body |-> <<>>]

LimIdle ==
    /\ clock = 0 /\ rpm = 0
    /\ clients = <<>> /\ reqs = <<>>

SrvIdle ==
    /\ mainpc = "idle" /\ healthpc = "idle"
    /\ quit = 0 /\ serverError = 0
    /\ srv = "idle"
    /\ healthCheckDone = FALSE /\ ethClosed = FALSE
    /\ sigCount = 0 /\ healthChecks = 0
    /\ served = <<>>

SlotIdle ==
    /\ slotpc = "idle" /\ slotIndex = 0 /\ storageKey = <<>>

WebIdle == HttpIdle /\ LimIdle /\ SrvIdle /\ SlotIdle

MathIdle ==
    /\ mpc = "idle"
    /\ amountIn = Nil /\ amountIn2 = Nil
    /\ reserveIn = Nil /\ reserveOut = Nil
    /\ feeBasisPoints = 0
    /\ amountOut = Nil /\ amountOut2 = Nil /\ amountOutRet = Nil

(***************************************************************************)
(* Bounds of the model.                                                    *)
(***************************************************************************)
MaxAmount == 5
MaxReserve == 4
MaxFee == 10
MaxSampleByte == 1
MaxBlock == 2

(***************************************************************************)
(* math/big natural numbers.                                               *)
(***************************************************************************)
LimbBase == 256

RECURSIVE natNorm(_)
natNorm(z) ==
    IF z = <<>> THEN <<>>
    ELSE IF z[Len(z)] = 0 THEN natNorm(SubSeq(z, 1, Len(z) - 1))
    ELSE z

RECURSIVE natOf(_)
natOf(n) ==
    IF n = 0 THEN <<>> ELSE <<n % LimbBase>> \o natOf(n \div LimbBase)

RECURSIVE natCmpFrom(_, _, _)
natCmpFrom(a, b, i) ==
    IF i = 0 THEN 0
    ELSE IF a[i] < b[i] THEN -1
    ELSE IF a[i] > b[i] THEN 1
    ELSE natCmpFrom(a, b, i - 1)

natCmp(a, b) ==
    IF Len(a) < Len(b) THEN -1
    ELSE IF Len(a) > Len(b) THEN 1
    ELSE natCmpFrom(a, b, Len(a))

RECURSIVE natAddC(_, _, _)
natAddC(a, b, c) ==
    IF a = <<>> /\ b = <<>> THEN (IF c = 0 THEN <<>> ELSE <<c>>)
    ELSE LET x == IF a = <<>> THEN 0 ELSE Head(a)
             y == IF b = <<>> THEN 0 ELSE Head(b)
             s == x + y + c
         IN <<s % LimbBase>> \o
            natAddC(IF a = <<>> THEN <<>> ELSE Tail(a),
                    IF b = <<>> THEN <<>> ELSE Tail(b),
                    s \div LimbBase)

natAdd(a, b) == natAddC(a, b, 0)

RECURSIVE natSubB(_, _, _)
natSubB(a, b, brw) ==
    IF a = <<>> THEN <<>>
    ELSE LET y == IF b = <<>> THEN 0 ELSE Head(b)
             d == Head(a) - y - brw
         IN <<d % LimbBase>> \o
            natSubB(Tail(a),
                    IF b = <<>> THEN <<>> ELSE Tail(b),
                    IF d < 0 THEN 1 ELSE 0)

\* a - b for a >= b
natSub(a, b) == natNorm(natSubB(a, b, 0))

RECURSIVE natMulAddWW(_, _, _)
natMulAddWW(a, d, c) ==
    IF a = <<>> THEN (IF c = 0 THEN <<>> ELSE <<c>>)
    ELSE LET p == Head(a) * d + c
         IN <<p % LimbBase>> \o natMulAddWW(Tail(a), d, p \div LimbBase)

natMulW(a, d) == IF d = 0 THEN <<>> ELSE natMulAddWW(a, d, 0)

RECURSIVE natMul(_, _)
natMul(a, b) ==
    IF a = <<>> \/ b = <<>> THEN <<>>
    ELSE natAdd(natMulW(a, Head(b)),
                LET hi == natMul(a, Tail(b))
                IN IF hi = <<>> THEN <<>> ELSE <<0>> \o hi)

RECURSIVE natQuoDigit(_, _, _, _)
natQuoDigit(r, b, lo, hi) ==
    IF lo = hi THEN lo
    ELSE LET mid == (lo + hi + 1) \div 2
         IN IF natCmp(natMulW(b, mid), r) <= 0
            THEN natQuoDigit(r, b, mid, hi)
            ELSE natQuoDigit(r, b, lo, mid - 1)

\* quotient and remainder of a by b, b # 0 (big.Int.QuoRem panics on b = 0)
RECURSIVE natDivMod(_, _)
natDivMod(a, b) ==
    IF a = <<>> THEN [quo |-> <<>>, rem |-> <<>>]
    ELSE LET up == natDivMod(Tail(a), b)
             r0 == natNorm(<<Head(a)>> \o up.rem)
             d  == natQuoDigit(r0, b, 0, LimbBase - 1)
         IN [quo |-> natNorm(<<d>> \o up.quo),
             rem |-> natSub(r0, natMulW(b, d))]

Pow2(n) == IF n = 0 THEN 1 ELSE 2 ^ n

\* x << n
natLsh(a, n) ==
    LET shifted == natMulW(a, Pow2(n % 8))
    IN IF shifted = <<>> THEN <<>>
       ELSE [i \in 1 .. (n \div 8) |-> 0] \o shifted

\* x >> n
natRsh(a, n) ==
    LET k == n \div 8
        r == n % 8
        d == IF k >= Len(a) THEN <<>> ELSE SubSeq(a, k + 1, Len(a))
    IN natNorm([i \in 1 .. Len(d) |->
                  (d[i] \div Pow2(r))
                  + (IF i < Len(d) THEN (d[i + 1] % Pow2(r)) * Pow2(8 - r) ELSE 0)])

RECURSIVE bitAnd(_, _, _)
bitAnd(x, y, n) ==
    IF n = 0 \/ x = 0 \/ y = 0 THEN 0
    ELSE (x % 2) * (y % 2) + 2 * bitAnd(x \div 2, y \div 2, n - 1)

\* x & y
natAnd(x, y) ==
    LET n == IF Len(x) < Len(y) THEN Len(x) ELSE Len(y)
    IN natNorm([i \in 1 .. n |-> bitAnd(x[i], y[i], 8)])

Reverse(s) == [i \in 1 .. Len(s) |-> s[Len(s) + 1 - i]]

\* big.Int.SetBytes: the bytes are a big-endian unsigned integer
SetBytes(bytes) == natNorm(Reverse(bytes))

(***************************************************************************)
(* Fixed-width decoder.                                                    *)
(***************************************************************************)
Mask112 == natSub(natLsh(natOf(1), 112), natOf(1))

\* Mutant: reserve1 is shifted down but not masked
ParseReserves_NoMask(bytes) ==
    LET v == SetBytes(bytes)
        tmp == natRsh(v, 112)
    IN [reserve0 |-> natAnd(v, Mask112), reserve1 |-> tmp]

\* Mutant: the two fields are read in the order of the layout comment
\* (reserve0 from the high field)
ParseReserves_Swapped(bytes) ==
    LET v == SetBytes(bytes)
        tmp == natRsh(v, 112)
    IN [reserve0 |-> natAnd(tmp, Mask112), reserve1 |-> natAnd(v, Mask112)]

ParseReserves(bytes) ==
    LET v == SetBytes(bytes)
        tmp == natRsh(v, 112)
    IN [reserve0 |-> natAnd(v, Mask112), reserve1 |-> natAnd(tmp, Mask112)]

(***************************************************************************)
(* Swap math engine.                                                       *)
(***************************************************************************)
FeeBasisPoints1000 == natOf(1000)
FeeBasisPoints997 == natOf(997)
FeeBasisPoints995 == natOf(995)
FeeBasisPoints990 == natOf(990)

\* Mutant: the 0.5% preset picks the 1.0% multiplier
FeeMultiplier_WrongPreset(fee) ==
    CASE fee = 3 -> FeeBasisPoints997
      [] fee = 5 -> FeeBasisPoints990
      [] fee = 10 -> FeeBasisPoints990
      [] OTHER -> natOf(1000 - fee)

\* feeMultiplier of CalculateSwapAmount: a preset constant, or a scratch
\* integer set to 1000 - feeBasisPoints
FeeMultiplier(fee) ==
    CASE fee = 3 -> FeeBasisPoints997
      [] fee = 5 -> FeeBasisPoints995
      [] fee = 10 -> FeeBasisPoints990
      [] OTHER -> natOf(1000 - fee)

\* Mutant: the quotient is rounded up when the division leaves a remainder
QuoRem_RoundUp(x, y) ==
    IF y = <<>> THEN [quo |-> Panic, rem |-> Panic]
    ELSE LET qr == natDivMod(x, y)
         IN IF qr.rem = <<>> THEN qr
            ELSE [quo |-> natAdd(qr.quo, natOf(1)), rem |-> qr.rem]

\* big.Int.QuoRem(x, y): truncated division; all operands are non-negative here
QuoRem(x, y) ==
    IF y = <<>> THEN [quo |-> Panic, rem |-> Panic] ELSE natDivMod(x, y)

\* Mutant: the operands of the final division are swapped
CalculateSwapAmount_SwappedQuo(amtIn, resIn, resOut, fee) ==
    LET feeMultiplier == FeeMultiplier(fee)
        t1      == natMul(amtIn, feeMultiplier)
        out1    == natMul(resIn, FeeBasisPoints1000)
        t2      == natAdd(out1, t1)
        out2    == natMul(t1, resOut)
        qr      == QuoRem(t2, out2)
    IN qr.quo

\* Mutant: the denominator leaves out the amount paid in
CalculateSwapAmount_NoAmountInDenominator(amtIn, resIn, resOut, fee) ==
    LET feeMultiplier == FeeMultiplier(fee)
        t1      == natMul(amtIn, feeMultiplier)
        out1    == natMul(resIn, FeeBasisPoints1000)
        t2      == out1
        out2    == natMul(t1, resOut)
        qr      == QuoRem(out2, t2)
    IN qr.quo

\* CalculateSwapAmount writing its result into the caller's amountOut,
\* register by register (t1, t2 scratch; amountOut reused as a temporary)
CalculateSwapAmount(amtIn, resIn, resOut, fee) ==
    LET feeMultiplier == FeeMultiplier(fee)
        t1      == natMul(amtIn, feeMultiplier)
        out1    == natMul(resIn, FeeBasisPoints1000)
        t2      == natAdd(out1, t1)
        out2    == natMul(t1, resOut)
        qr      == QuoRem(out2, t2)
    IN qr.quo

CalculateUniswapV2SwapAmount(amtIn, resIn, resOut) ==
    CalculateSwapAmount(amtIn, resIn, resOut, 3)

\* The value-returning revision of CalculateSwapAmount (numerator,
\* denominator, tmpCalc scratch; the result is copied into a fresh integer)
CalculateSwapAmountRet(amtIn, resIn, resOut, fee) ==
    LET numerator   == CASE fee = 3 -> natMul(amtIn, FeeBasisPoints997)
                         [] fee = 5 -> natMul(amtIn, FeeBasisPoints995)
                         [] fee = 10 -> natMul(amtIn, FeeBasisPoints990)
                         [] OTHER -> natMul(amtIn, natOf(1000 - fee))
        tmpCalc1    == natMul(resIn, FeeBasisPoints1000)
        denominator == natAdd(tmpCalc1, numerator)
        tmpCalc2    == natMul(numerator, resOut)
        result      == QuoRem(tmpCalc2, denominator)
    IN result.quo

\* Mutant: the 0.5% fee preset in place of Uniswap V2's 0.3%
CalculateUniswapV2SwapAmountRet_Fee5(amtIn, resIn, resOut) ==
    CalculateSwapAmountRet(amtIn, resIn, resOut, 5)

CalculateUniswapV2SwapAmountRet(amtIn, resIn, resOut) ==
    CalculateSwapAmountRet(amtIn, resIn, resOut, 3)

(***************************************************************************)
(* Specification of the swap math engine: the inputs are drawn from        *)
(* bounded sets, then the function is applied.                             *)
(***************************************************************************)
FixtureAmount == 1000
FixtureReserve == 1000000
FeeLimit == 1000

AmountSet == (1 .. MaxAmount) \cup {FixtureAmount}
ReserveSet == (1 .. MaxReserve) \cup {FixtureReserve}
FeeSet == (0 .. MaxFee) \cup {FeeLimit - 1}

InitMath ==
    /\ PoolIdle /\ WebIdle
    /\ DecIdle /\ EstIdle /\ OrdIdle
    /\ mpc = "ready"
    /\ amountIn \in {natOf(n) : n \in AmountSet}
    /\ amountIn2 \in {natOf(n) : n \in AmountSet}
    /\ reserveIn \in {natOf(n) : n \in ReserveSet}
    /\ reserveOut \in {natOf(n) : n \in ReserveSet}
    /\ feeBasisPoints \in FeeSet
    /\ amountOut = Nil
    /\ amountOut2 = Nil
    /\ amountOutRet = Nil

CallCalculateSwapAmount ==
    /\ mpc = "ready"
    /\ amountOut' = CalculateSwapAmount(amountIn, reserveIn, reserveOut, feeBasisPoints)
    /\ mpc' = "called"
    /\ UNCHANGED <<amountIn, amountIn2, reserveIn, reserveOut, feeBasisPoints,
                   amountOut2, amountOutRet, decVars, estVars, ordVars, poolVars, webVars>>

CallCalculateSwapAmount2 ==
    /\ mpc = "called"
    /\ amountOut2' = CalculateSwapAmount(amountIn2, reserveIn, reserveOut, feeBasisPoints)
    /\ mpc' = "called2"
    /\ UNCHANGED <<amountIn, amountIn2, reserveIn, reserveOut, feeBasisPoints,
                   amountOut, amountOutRet, decVars, estVars, ordVars, poolVars, webVars>>

CallCalculateSwapAmountRet ==
    /\ mpc = "called2"
    /\ amountOutRet' = CalculateSwapAmountRet(amountIn, reserveIn, reserveOut, feeBasisPoints)
    /\ mpc' = "done"
    /\ UNCHANGED <<amountIn, amountIn2, reserveIn, reserveOut, feeBasisPoints,
                   amountOut, amountOut2, decVars, estVars, ordVars, poolVars, webVars>>

NextMath ==
    \/ CallCalculateSwapAmount
    \/ CallCalculateSwapAmount2
    \/ CallCalculateSwapAmountRet

SpecMath == InitMath /\ [][NextMath]_vars

\* C1: for amountIn, reserveIn, reserveOut > 0 and 0 <= f < 1000, preset or
\* not, CalculateSwapAmount returns q with q*den <= num < (q+1)*den, where
\* num = amountIn*(1000-f)*reserveOut and den = reserveIn*1000 +
\* amountIn*(1000-f) are computed with 1000-f taken on the fly: q is the floor
\* of num/den, never rounded up, and the presets agree with the on-the-fly path.
IsFloorOf(q, amtIn, resIn, resOut, fee) ==
    LET withFee == natMul(amtIn, natOf(FeeLimit - fee))
        num == natMul(withFee, resOut)
        den == natAdd(natMul(resIn, natOf(FeeLimit)), withFee)
    IN /\ q # Panic
       /\ natCmp(natMul(q, den), num) <= 0
       /\ natCmp(num, natMul(natAdd(q, natOf(1)), den)) < 0

C1_ExactFloor ==
    /\ mpc # "ready" =>
         IsFloorOf(amountOut, amountIn, reserveIn, reserveOut, feeBasisPoints)
    /\ mpc = "done" =>
         IsFloorOf(amountOutRet, amountIn, reserveIn, reserveOut, feeBasisPoints)

C1_Witness ==
    /\ mpc = "done"
    /\ feeBasisPoints = 3
    /\ amountIn = natOf(FixtureAmount)
    /\ reserveIn = natOf(FixtureReserve)
    /\ reserveOut = natOf(FixtureReserve)
    /\ amountOut = natOf(996)
    /\ amountOutRet = natOf(996)

\* C7 (as stated): CalculateSwapAmount is strictly increasing in amountIn:
\* for fixed reserves and fee, amountIn < amountIn2 gives amountOut < amountOut2.
C7_StrictlyIncreasing ==
    (mpc \in {"called2", "done"} /\ natCmp(amountIn, amountIn2) < 0)
        => natCmp(amountOut, amountOut2) < 0

\* C7 (amended): CalculateSwapAmount is non-decreasing in amountIn: for fixed
\* reserveIn > 0, reserveOut > 0 and fee, amountIn < amountIn2 gives
\* amountOut <= amountOut2 (the floor division can return the same amount
\* for two different inputs).
C7_NonDecreasing ==
    (mpc \in {"called2", "done"} /\ natCmp(amountIn, amountIn2) < 0)
        => /\ amountOut # Panic
           /\ amountOut2 # Panic
           /\ natCmp(amountOut, amountOut2) <= 0

C7_Witness ==
    /\ mpc = "done"
    /\ natCmp(amountIn, amountIn2) < 0
    /\ natCmp(amountOut, amountOut2) < 0
    /\ amountOut # <<>>

\* C8 (as stated): for amountIn, reserveIn, reserveOut > 0 and 0 < fee < 1000
\* the amount returned by CalculateSwapAmount is strictly less than amountIn.
C8_LessThanAmountIn ==
    (mpc # "ready" /\ feeBasisPoints > 0)
        => natCmp(amountOut, amountIn) < 0

\* C8 (amended): for amountIn, reserveIn, reserveOut > 0 and 0 < fee < 1000,
\* when reserveOut <= reserveIn the amount returned by CalculateSwapAmount is
\* strictly less than amountIn.
C8_LessThanAmountInBalanced ==
    (mpc # "ready" /\ feeBasisPoints > 0 /\ natCmp(reserveOut, reserveIn) <= 0)
        => /\ amountOut # Panic
           /\ natCmp(amountOut, amountIn) < 0

C8_Witness ==
    /\ mpc = "done"
    /\ feeBasisPoints = 5
    /\ natCmp(reserveOut, reserveIn) <= 0
    /\ amountOut # <<>>
    /\ natCmp(amountOut, amountIn) < 0

(***************************************************************************)
(* Specification of the decoder: a 32-byte storage word is drawn, either   *)
(* packed from two reserves and a timestamp or as raw bytes, and decoded.  *)
(***************************************************************************)
WordBytes == 32
ReserveBytes == 14

SampleBytes == {0, 255} \cup (1 .. MaxSampleByte)

\* the sampled byte strings of length n: x in the first i bytes, y in the
\* rest, split at either end or in the middle
TwoRuns(n) ==
    {[k \in 1 .. n |-> IF k <= i THEN x ELSE y] :
        i \in {0, 1, n \div 2, n - 1, n}, x \in SampleBytes, y \in SampleBytes}

\* the sampled byte strings of length n with up to three runs
ThreeRuns(n) ==
    {[k \in 1 .. n |-> IF k <= i THEN x ELSE IF k <= j THEN y ELSE z] :
        i \in 0 .. n, j \in 0 .. n,
        x \in SampleBytes, y \in SampleBytes, z \in SampleBytes}

ReserveSamples == {natNorm(s) : s \in TwoRuns(ReserveBytes)}
TimestampSamples ==
    {<<>>, <<1>>, <<0, 0, 0, 128>>, <<255, 255, 255, 255>>, <<52, 18, 205, 171>>}

\* n as size big-endian bytes (big.Int.FillBytes)
FillBytes(n, size) ==
    Reverse(n \o [i \in 1 .. (size - Len(n)) |-> 0])

\* the storage word of a pair: reserve0 in bits 0-111, reserve1 in bits
\* 112-223, the block timestamp above
PackWord(r0, r1, ts) ==
    FillBytes(natAdd(natAdd(r0, natLsh(r1, 112)), natLsh(ts, 224)), WordBytes)

InitDecode ==
    /\ PoolIdle /\ WebIdle
    /\ MathIdle /\ EstIdle /\ OrdIdle
    /\ reserve0 = Nil /\ reserve1 = Nil
    /\ \/ /\ dpc = "packed"
          /\ enc0 \in ReserveSamples
          /\ enc1 \in ReserveSamples
          /\ encTs \in TimestampSamples
          /\ reserveData = PackWord(enc0, enc1, encTs)
       \/ /\ dpc = "raw"
          /\ enc0 = Nil /\ enc1 = Nil /\ encTs = Nil
          /\ reserveData \in ThreeRuns(WordBytes)

CallParseReserves ==
    /\ dpc \in {"packed", "raw"}
    /\ LET r == ParseReserves(reserveData)
       IN /\ reserve0' = r.reserve0
          /\ reserve1' = r.reserve1
    /\ dpc' = IF dpc = "packed" THEN "parsedPacked" ELSE "parsedRaw"
    /\ UNCHANGED <<reserveData, enc0, enc1, encTs, mathVars, estVars, ordVars,
                   poolVars, webVars>>

NextDecode == CallParseReserves

SpecDecode == InitDecode /\ [][NextDecode]_vars

IsNat(x) ==
    /\ \A i \in 1 .. Len(x) : x[i] \in 0 .. 255
    /\ (x # <<>> => x[Len(x)] # 0)

C4_TotalAndBounded ==
    /\ dpc \in {"packed", "raw"} =>
         LET r == ParseReserves(reserveData)
         IN IsNat(r.reserve0) /\ IsNat(r.reserve1)
    /\ dpc \in {"parsedPacked", "parsedRaw"} =>
         /\ IsNat(reserve0) /\ Len(reserve0) <= ReserveBytes
         /\ IsNat(reserve1) /\ Len(reserve1) <= ReserveBytes
         /\ (reserveData = [i \in 1 .. WordBytes |-> 0] =>
                (reserve0 = <<>> /\ reserve1 = <<>>))

C4_Witness ==
    /\ dpc = "parsedRaw"
    /\ reserveData = [i \in 1 .. WordBytes |-> 255]
    /\ Len(reserve0) = ReserveBytes
    /\ Len(reserve1) = ReserveBytes

(***************************************************************************)
(* Reserve orderer.                                                        *)
(***************************************************************************)
ZeroAddress == "0x0"
TokenAddrs == {"A", "B", "C"}

ErrTokenPairMismatch == "ErrTokenPairMismatch"

\* Mutant: the second case returns the reserves in pool order
DetermineReserveOrder_NoSwap(s, d, t0, t1, r0, r1) ==
    IF s = t0 /\ d = t1
    THEN [reserveIn |-> r0, reserveOut |-> r1, err |-> NoErr]
    ELSE IF s = t1 /\ d = t0
    THEN [reserveIn |-> r0, reserveOut |-> r1, err |-> NoErr]
    ELSE [reserveIn |-> Nil, reserveOut |-> Nil, err |-> ErrTokenPairMismatch]

\* Mutant: only the source token is compared, so a pair with a foreign
\* destination token is accepted
DetermineReserveOrder_SrcOnly(s, d, t0, t1, r0, r1) ==
    IF s = t0
    THEN [reserveIn |-> r0, reserveOut |-> r1, err |-> NoErr]
    ELSE IF s = t1
    THEN [reserveIn |-> r1, reserveOut |-> r0, err |-> NoErr]
    ELSE [reserveIn |-> Nil, reserveOut |-> Nil, err |-> ErrTokenPairMismatch]

DetermineReserveOrder(s, d, t0, t1, r0, r1) ==
    IF s = t0 /\ d = t1
    THEN [reserveIn |-> r0, reserveOut |-> r1, err |-> NoErr]
    ELSE IF s = t1 /\ d = t0
    THEN [reserveIn |-> r1, reserveOut |-> r0, err |-> NoErr]
    ELSE [reserveIn |-> Nil, reserveOut |-> Nil, err |-> ErrTokenPairMismatch]

(***************************************************************************)
(* Specification of the reserve orderer: it is called with (src, dst) and  *)
(* then with (dst, src), on the arguments EstimateSwapAmount can pass it:  *)
(* src # dst, non-zero pool tokens, non-zero reserves.                     *)
(***************************************************************************)
InitOrder ==
    /\ PoolIdle /\ WebIdle
    /\ mpc = "idle"
    /\ amountIn = Nil /\ amountIn2 = Nil
    /\ feeBasisPoints = 0
    /\ amountOut = Nil /\ amountOut2 = Nil /\ amountOutRet = Nil
    /\ dpc = "idle"
    /\ reserveData = <<>>
    /\ enc0 = Nil /\ enc1 = Nil /\ encTs = Nil
    /\ pc = "idle"
    /\ poolAddress = "" /\ srcToken = "" /\ dstToken = ""
    /\ srcAmount = NilInt
    /\ pool = NoAddr
    /\ blockNumber = 0
    /\ token0Data = <<>> /\ token1Data = <<>>
    /\ cause = NoErr
    /\ calls = <<>>
    /\ acquired = 0 /\ released = 0
    /\ opc = "ready"
    /\ src \in TokenAddrs
    /\ dst \in TokenAddrs \ {src}
    /\ token0 \in TokenAddrs
    /\ token1 \in TokenAddrs
    /\ reserve0 \in {natOf(n) : n \in 1 .. MaxReserve}
    /\ reserve1 \in {natOf(n) : n \in 1 .. MaxReserve}
    /\ reserveIn = Nil /\ reserveOut = Nil /\ err = NoErr
    /\ reserveInRev = Nil /\ reserveOutRev = Nil /\ errRev = NoErr

orderOther ==
    <<mpc, amountIn, amountIn2, feeBasisPoints, amountOut, amountOut2,
      amountOutRet, dpc, reserveData, enc0, enc1, encTs, pc, poolAddress,
      srcToken, dstToken, srcAmount, pool, blockNumber, token0Data,
      token1Data, cause, calls, acquired, released,
      src, dst, token0, token1, reserve0, reserve1, poolVars, webVars>>

CallDetermineReserveOrder ==
    /\ opc = "ready"
    /\ LET r == DetermineReserveOrder(src, dst, token0, token1, reserve0, reserve1)
       IN /\ reserveIn' = r.reserveIn
          /\ reserveOut' = r.reserveOut
          /\ err' = r.err
    /\ opc' = "called"
    /\ UNCHANGED <<orderOther, reserveInRev, reserveOutRev, errRev>>

CallDetermineReserveOrderRev ==
    /\ opc = "called"
    /\ LET r == DetermineReserveOrder(dst, src, token0, token1, reserve0, reserve1)
       IN /\ reserveInRev' = r.reserveIn
          /\ reserveOutRev' = r.reserveOut
          /\ errRev' = r.err
    /\ opc' = "done"
    /\ UNCHANGED <<orderOther, reserveIn, reserveOut, err>>

NextOrder ==
    \/ CallDetermineReserveOrder
    \/ CallDetermineReserveOrderRev

SpecOrder == InitOrder /\ [][NextOrder]_vars

ErrValidation == "ErrValidation"
ErrBusinessRule == "ErrBusinessRule"
ErrNotFound == "ErrNotFound"
ErrExternalService == "ErrExternalService"

\* errors of the chain reader and of the Uniswap V2 client
ErrConnectionFailed == "ErrConnectionFailed"
ErrRPCTimeout == "ErrRPCTimeout"
ErrStorageReadFailed == "ErrStorageReadFailed"
ErrPoolNotFound == "ErrPoolNotFound"
ErrInsufficientLiquidity == "ErrInsufficientLiquidity"

UniswapV2Token0StorageSlot == 6
UniswapV2Token1StorageSlot == 7
UniswapV2ReservesStorageSlot == 8

IntVal(n) ==
    [nil |-> FALSE, neg |-> n < 0, abs |-> natOf(IF n < 0 THEN -n ELSE n)]

\* big.Int.Sign
Sign(x) == IF x.abs = <<>> THEN 0 ELSE IF x.neg THEN -1 ELSE 1

\* The address strings of the model and the address each well-formed one
\* parses to: hex digits are case-insensitive, so "0xa" and "0xA" are the
\* same address
HexAddrTable ==
    [s \in {"0xP", "0xa", "0xA", "0xb", "0xc"} |->
        CASE s = "0xP" -> "P"
          [] s \in {"0xa", "0xA"} -> "A"
          [] s = "0xb" -> "B"
          [] s = "0xc" -> "C"]

\* common.IsHexAddress
IsHexAddress(s) == s \in DOMAIN HexAddrTable

\* common.HexToAddress
HexToAddress(s) == HexAddrTable[s]

\* common.BytesToAddress on a storage word: the low 20 bytes, the 12 bytes
\* of padding above them dropped.  A token word is <<padding, address>>.
BytesToAddress(data) == data[2]

\* Mutant: a zero amount is accepted
AmountRejected_AllowsZero(amt) == amt.nil \/ Sign(amt) < 0

AmountRejected(amt) == amt.nil \/ Sign(amt) <= 0

\* Mutant: a malformed address is reported as a business rule violation
Validate_MalformedAsBusinessRule(pa, st, dt, amt) ==
    IF pa = "" \/ st = "" \/ dt = "" THEN ErrValidation
    ELSE IF AmountRejected(amt) THEN ErrValidation
    ELSE IF ~IsHexAddress(pa) \/ ~IsHexAddress(st) \/ ~IsHexAddress(dt)
    THEN ErrBusinessRule
    ELSE IF HexToAddress(st) = HexToAddress(dt) THEN ErrBusinessRule
    ELSE NoErr

\* Mutant: the check that src and dst differ is missing
Validate_NoSameTokenCheck(pa, st, dt, amt) ==
    IF pa = "" \/ st = "" \/ dt = "" THEN ErrValidation
    ELSE IF AmountRejected(amt) THEN ErrValidation
    ELSE IF ~IsHexAddress(pa) \/ ~IsHexAddress(st) \/ ~IsHexAddress(dt)
    THEN ErrValidation
    ELSE NoErr

\* the validation step of EstimateSwapAmount: the error it returns, or none
Validate(pa, st, dt, amt) ==
    IF pa = "" THEN ErrValidation
    ELSE IF st = "" THEN ErrValidation
    ELSE IF dt = "" THEN ErrValidation
    ELSE IF AmountRejected(amt) THEN ErrValidation
    ELSE IF ~IsHexAddress(pa) THEN ErrValidation
    ELSE IF ~IsHexAddress(st) THEN ErrValidation
    ELSE IF ~IsHexAddress(dt) THEN ErrValidation
    ELSE IF HexToAddress(st) = HexToAddress(dt) THEN ErrBusinessRule
    ELSE NoErr

\* Mutant: only token0 is compared with the zero address
IsPoolNotFound_Token0Only(t0, t1) == t0 = ZeroAddress

\* LoadTokens: token0 == ZeroAddress || token1 == ZeroAddress
IsPoolNotFound(t0, t1) == t0 = ZeroAddress \/ t1 = ZeroAddress

\* ReadStorageSlot: the storage key has the slot in its last byte
StorageKey(slot) == slot % 256

ReadCall(slot, height) ==
    [op |-> "ReadContractStorage", key |-> StorageKey(slot), block |-> height]

(***************************************************************************)
(* The chain reader is outside the program: each call fails or returns     *)
(* data, chosen freely.                                                    *)
(***************************************************************************)
PoolStrings == {"", "0xZZ", "0xP"}
TokenStrings == {"", "0xZZ", "0xa", "0xA", "0xb", "0xc"}
AmountArgs == {NilInt, IntVal(-1), IntVal(0), IntVal(1), IntVal(FixtureAmount)}

TokenWords == {<<p, a>> : p \in {0, 1}, a \in TokenAddrs \cup {ZeroAddress}}
ChainReserves == {0, 1, MaxReserve, FixtureReserve}
ReserveWords ==
    {PackWord(natOf(x), natOf(y), ts) :
        x \in ChainReserves, y \in ChainReserves,
        ts \in {<<>>, <<52, 18, 205, 171>>}}

Init ==
    /\ PoolIdle /\ WebIdle
    /\ mpc = "idle"
    /\ amountIn = Nil /\ amountIn2 = Nil
    /\ feeBasisPoints = 0
    /\ amountOut2 = Nil /\ amountOutRet = Nil
    /\ dpc = "idle"
    /\ enc0 = Nil /\ enc1 = Nil /\ encTs = Nil
    /\ OrdIdle
    /\ pc = "start"
    /\ poolAddress \in PoolStrings
    /\ srcToken \in TokenStrings
    /\ dstToken \in TokenStrings
    /\ srcAmount \in AmountArgs
    /\ pool = NoAddr /\ src = NoAddr /\ dst = NoAddr
    /\ blockNumber = 0
    /\ token0Data = <<>> /\ token1Data = <<>>
    /\ token0 = NoAddr /\ token1 = NoAddr
    /\ reserveData = <<>>
    /\ reserve0 = Nil /\ reserve1 = Nil
    /\ reserveIn = Nil /\ reserveOut = Nil
    /\ amountOut = Nil
    /\ err = NoErr /\ cause = NoErr
    /\ calls = <<>>
    /\ acquired = 0 /\ released = 0

\* the variables of the other components and the request's arguments
estOther ==
    <<mpc, amountIn, amountIn2, feeBasisPoints, amountOut2, amountOutRet,
      dpc, enc0, enc1, encTs, ordVars, poolVars, webVars,
      poolAddress, srcToken, dstToken, srcAmount>>

\* estimate.go:43-80
ValidateRequest ==
    /\ pc = "start"
    /\ LET e == Validate(poolAddress, srcToken, dstToken, srcAmount)
       IN IF e # NoErr
          THEN /\ err' = e
               /\ pc' = "done"
               /\ UNCHANGED <<pool, src, dst>>
          ELSE /\ pool' = HexToAddress(poolAddress)
               /\ src' = HexToAddress(srcToken)
               /\ dst' = HexToAddress(dstToken)
               /\ pc' = "getBlock"
               /\ err' = NoErr
    /\ UNCHANGED <<estOther, blockNumber, token0Data, token1Data, token0,
                   token1, reserveData, reserve0, reserve1, reserveIn,
                   reserveOut, amountOut, cause, calls, acquired, released>>

\* estimate.go:82-88: the latest block height, then the scratch integer
\* holding it is acquired and its release deferred
GetLatestBlockNumber ==
    /\ pc = "getBlock"
    /\ calls' = Append(calls, [op |-> "GetLatestBlockNumber", key |-> 0, block |-> 0])
    /\ \/ /\ cause' \in {ErrRPCTimeout, ErrConnectionFailed}
          /\ err' = ErrExternalService
          /\ pc' = "done"
          /\ UNCHANGED <<blockNumber, acquired>>
       \/ /\ blockNumber' \in 1 .. MaxBlock
          /\ acquired' = acquired + 1
          /\ pc' = "loadToken0"
          /\ UNCHANGED <<err, cause>>
    /\ UNCHANGED <<estOther, pool, src, dst, token0Data, token1Data, token0,
                   token1, reserveData, reserve0, reserve1, reserveIn,
                   reserveOut, amountOut, released>>

\* Mutant: a failed read of slot 6 is recorded but the request goes on
LoadTokensReadToken0_ContinueOnError ==
    /\ pc = "loadToken0"
    /\ calls' = Append(calls, ReadCall(UniswapV2Token0StorageSlot, blockNumber))
    /\ \/ /\ cause' \in {ErrRPCTimeout, ErrStorageReadFailed}
          /\ err' = ErrNotFound
          /\ token0Data' = <<0, "A">>
       \/ /\ token0Data' \in TokenWords
          /\ UNCHANGED <<err, cause>>
    /\ pc' = "loadToken1"
    /\ UNCHANGED <<estOther, pool, src, dst, blockNumber, token1Data, token0,
                   token1, reserveData, reserve0, reserve1, reserveIn,
                   reserveOut, amountOut, acquired, released>>

\* LoadTokens, first read (uniswap_v2.go:79-83); a failure returns through
\* estimate.go:90-93
LoadTokensReadToken0 ==
    /\ pc = "loadToken0"
    /\ calls' = Append(calls, ReadCall(UniswapV2Token0StorageSlot, blockNumber))
    /\ \/ /\ cause' \in {ErrRPCTimeout, ErrStorageReadFailed}
          /\ err' = ErrNotFound
          /\ released' = released + 1
          /\ pc' = "done"
          /\ UNCHANGED token0Data
       \/ /\ token0Data' \in TokenWords
          /\ pc' = "loadToken1"
          /\ UNCHANGED <<err, cause, released>>
    /\ UNCHANGED <<estOther, pool, src, dst, blockNumber, token1Data, token0,
                   token1, reserveData, reserve0, reserve1, reserveIn,
                   reserveOut, amountOut, acquired>>

\* LoadTokens, second read and zero-address check (uniswap_v2.go:85-95)
LoadTokensReadToken1 ==
    /\ pc = "loadToken1"
    /\ calls' = Append(calls, ReadCall(UniswapV2Token1StorageSlot, blockNumber))
    /\ \/ /\ cause' \in {ErrRPCTimeout, ErrStorageReadFailed}
          /\ err' = ErrNotFound
          /\ released' = released + 1
          /\ pc' = "done"
          /\ UNCHANGED <<token1Data, token0, token1>>
       \/ /\ token1Data' \in TokenWords
          /\ IF IsPoolNotFound(BytesToAddress(token0Data),
                               BytesToAddress(token1Data'))
             THEN /\ cause' = ErrPoolNotFound
                  /\ err' = ErrNotFound
                  /\ released' = released + 1
                  /\ pc' = "done"
                  /\ UNCHANGED <<token0, token1>>
             ELSE /\ token0' = BytesToAddress(token0Data)
                  /\ token1' = BytesToAddress(token1Data')
                  /\ pc' = "loadReserves"
                  /\ UNCHANGED <<err, cause, released>>
    /\ UNCHANGED <<estOther, pool, src, dst, blockNumber, token0Data,
                   reserveData, reserve0, reserve1, reserveIn, reserveOut,
                   amountOut, acquired>>

\* LoadReserves (uniswap_v2.go:99-112); a failure returns through
\* estimate.go:95-98
LoadReserves ==
    /\ pc = "loadReserves"
    /\ calls' = Append(calls, ReadCall(UniswapV2ReservesStorageSlot, blockNumber))
    /\ \/ /\ cause' \in {ErrRPCTimeout, ErrStorageReadFailed}
          /\ err' = ErrExternalService
          /\ released' = released + 1
          /\ pc' = "done"
          /\ UNCHANGED <<reserveData, reserve0, reserve1>>
       \/ /\ reserveData' \in ReserveWords
          /\ LET r == ParseReserves(reserveData')
             IN IF r.reserve0 = <<>> \/ r.reserve1 = <<>>
                THEN /\ cause' = ErrInsufficientLiquidity
                     /\ err' = ErrExternalService
                     /\ released' = released + 1
                     /\ pc' = "done"
                     /\ UNCHANGED <<reserve0, reserve1>>
                ELSE /\ reserve0' = r.reserve0
                     /\ reserve1' = r.reserve1
                     /\ pc' = "order"
                     /\ UNCHANGED <<err, cause, released>>
    /\ UNCHANGED <<estOther, pool, src, dst, blockNumber, token0Data,
                   token1Data, token0, token1, reserveIn, reserveOut,
                   amountOut, acquired>>

\* estimate.go:100-103
OrderReserves ==
    /\ pc = "order"
    /\ calls' = Append(calls, [op |-> "DetermineReserveOrder", key |-> 0, block |-> 0])
    /\ LET r == DetermineReserveOrder(src, dst, token0, token1, reserve0, reserve1)
       IN IF r.err # NoErr
          THEN /\ err' = r.err
               /\ cause' = r.err
               /\ released' = released + 1
               /\ pc' = "done"
               /\ UNCHANGED <<reserveIn, reserveOut>>
          ELSE /\ reserveIn' = r.reserveIn
               /\ reserveOut' = r.reserveOut
               /\ pc' = "checkReserves"
               /\ UNCHANGED <<err, cause, released>>
    /\ UNCHANGED <<estOther, pool, src, dst, blockNumber, token0Data,
                   token1Data, token0, token1, reserveData, reserve0,
                   reserve1, amountOut, acquired>>

\* estimate.go:105-107
CheckReserves ==
    /\ pc = "checkReserves"
    /\ IF reserveIn = <<>> \/ reserveOut = <<>>
       THEN /\ err' = ErrBusinessRule
            /\ released' = released + 1
            /\ pc' = "done"
       ELSE /\ pc' = "calculate"
            /\ UNCHANGED <<err, released>>
    /\ UNCHANGED <<estOther, pool, src, dst, blockNumber, token0Data,
                   token1Data, token0, token1, reserveData, reserve0,
                   reserve1, reserveIn, reserveOut, amountOut, cause, calls,
                   acquired>>

\* estimate.go:109-111: the swap computation (three scratch integers
\* acquired and released inside it), then the deferred release of blockNum
Calculate ==
    /\ pc = "calculate"
    /\ amountOut' = CalculateUniswapV2SwapAmountRet(srcAmount.abs, reserveIn, reserveOut)
    /\ acquired' = acquired + 3
    /\ released' = released + 4
    /\ pc' = "done"
    /\ UNCHANGED <<estOther, pool, src, dst, blockNumber, token0Data,
                   token1Data, token0, token1, reserveData, reserve0,
                   reserve1, reserveIn, reserveOut, err, cause, calls>>

Next ==
    \/ ValidateRequest
    \/ GetLatestBlockNumber
    \/ LoadTokensReadToken0
    \/ LoadTokensReadToken1
    \/ LoadReserves
    \/ OrderReserves
    \/ CheckReserves
    \/ Calculate

Spec == Init /\ [][Next]_vars

(***************************************************************************)
(* Properties of the orchestrator.                                         *)
(***************************************************************************)

\* C2: for a pool with token0 = A, token1 = B and both reserves 1,000,000,
\* every read succeeding, a request for amountIn = 1,000 finishes without
\* error with amountOut = 996, for (src = A, dst = B) and for (src = B,
\* dst = A) alike; and the swap formula on (1000, 1000000, 1000000, fee 3)
\* is 996 exactly.
C2_Fixture996 ==
    /\ CalculateSwapAmount(natOf(FixtureAmount), natOf(FixtureReserve),
                           natOf(FixtureReserve), 3) = natOf(996)
    /\ ( /\ pc = "done"
         /\ srcAmount = IntVal(FixtureAmount)
         /\ token0 = "A" /\ token1 = "B"
         /\ reserve0 = natOf(FixtureReserve)
         /\ reserve1 = natOf(FixtureReserve)
         /\ \/ src = "A" /\ dst = "B"
            \/ src = "B" /\ dst = "A" )
       => err = NoErr /\ amountOut = natOf(996)

C2_Witness ==
    /\ pc = "done"
    /\ srcAmount = IntVal(FixtureAmount)
    /\ token0 = "A" /\ token1 = "B"
    /\ reserve0 = natOf(FixtureReserve) /\ reserve1 = natOf(FixtureReserve)
    /\ src = "B" /\ dst = "A"
    /\ amountOut = natOf(996)

\* C6: for every (src, dst) that is neither (token0, token1) nor
\* (token1, token0), DetermineReserveOrder returns ErrTokenPairMismatch and
\* no reserves; and a request whose pair mismatches the pool's finishes
\* with ErrTokenPairMismatch itself, with no ordered reserves and no amount.
C6_Mismatch ==
    /\ \A s \in TokenAddrs, d \in TokenAddrs, t0 \in TokenAddrs, t1 \in TokenAddrs :
          ~(s = t0 /\ d = t1) /\ ~(s = t1 /\ d = t0)
          => LET r == DetermineReserveOrder(s, d, t0, t1, natOf(1), natOf(MaxReserve))
             IN r.err = ErrTokenPairMismatch /\ r.reserveIn = Nil /\ r.reserveOut = Nil
    /\ ( /\ pc = "done"
         /\ reserve0 # Nil
         /\ ~(src = token0 /\ dst = token1)
         /\ ~(src = token1 /\ dst = token0) )
       => /\ err = ErrTokenPairMismatch
          /\ reserveIn = Nil /\ reserveOut = Nil
          /\ amountOut = Nil

C6_Witness ==
    /\ pc = "done"
    /\ reserve0 # Nil
    /\ src = "A" /\ dst = "C" /\ token0 = "A" /\ token1 = "B"
    /\ err = ErrTokenPairMismatch
    /\ amountOut = Nil

\* C9: at every call of CalculateUniswapV2SwapAmount by the orchestrator
\* amountIn, reserveIn and reserveOut are strictly positive, so the
\* denominator reserveIn*1000 + amountIn*997 is non-zero and the division
\* never fails, whatever the chain returned.
C9_NoDivisionByZero ==
    /\ pc = "calculate" =>
          /\ ~srcAmount.nil /\ Sign(srcAmount) > 0
          /\ reserveIn # Nil /\ reserveIn # <<>>
          /\ reserveOut # Nil /\ reserveOut # <<>>
          /\ natAdd(natMul(reserveIn, FeeBasisPoints1000),
                    natMul(srcAmount.abs, FeeBasisPoints997)) # <<>>
    /\ amountOut # Panic

C9_Witness ==
    /\ pc = "calculate"
    /\ srcAmount = IntVal(1)
    /\ reserveIn = natOf(1) /\ reserveOut = natOf(FixtureReserve)

\* C10: a request that the validation step rejects (an empty or malformed
\* address, a nil or non-positive amount, src equal to dst) ends with an
\* error without any collaborator call having been made and without any
\* scratch integer having been acquired.
C10_ValidationFirst ==
    ( \/ ~IsHexAddress(poolAddress)
      \/ ~IsHexAddress(srcToken)
      \/ ~IsHexAddress(dstToken)
      \/ srcAmount.nil
      \/ Sign(srcAmount) <= 0
      \/ HexToAddress(srcToken) = HexToAddress(dstToken) )
    => /\ calls = <<>>
       /\ acquired = 0
       /\ pc \in {"start", "done"}
       /\ pc = "done" => err # NoErr

C10_Witness ==
    /\ pc = "done"
    /\ poolAddress = "0xP" /\ srcToken = "0xa" /\ dstToken = "0xA"
    /\ srcAmount = IntVal(1)
    /\ err # NoErr
    /\ calls = <<>>

\* C11: a request with an empty or malformed address argument, or with a
\* nil, zero or negative amount, ends with ErrValidation and no amount.
C11_ValidationKind ==
    ( /\ pc = "done"
      /\ \/ poolAddress = "" \/ srcToken = "" \/ dstToken = ""
         \/ ~IsHexAddress(poolAddress)
         \/ ~IsHexAddress(srcToken)
         \/ ~IsHexAddress(dstToken)
         \/ srcAmount.nil
         \/ Sign(srcAmount) <= 0 )
    => err = ErrValidation /\ amountOut = Nil

C11_Witness ==
    /\ pc = "done"
    /\ poolAddress = "0xP" /\ srcToken = "0xa" /\ dstToken = "0xZZ"
    /\ srcAmount = IntVal(1)
    /\ err = ErrValidation

\* C12: a well-formed request whose source and destination parse to the
\* same address (also when the strings differ in letter case) ends with
\* ErrValidation.
C12_SameTokenIsValidation ==
    ( /\ pc = "done"
      /\ IsHexAddress(poolAddress)
      /\ IsHexAddress(srcToken) /\ IsHexAddress(dstToken)
      /\ ~srcAmount.nil /\ Sign(srcAmount) > 0
      /\ HexToAddress(srcToken) = HexToAddress(dstToken) )
    => err = ErrValidation

\* C13: when the reserves word was read and decodes to a zero reserve0 or
\* a zero reserve1, the request ends with ErrInsufficientLiquidity and with
\* no other kind.
C13_ZeroReserveIsInsufficientLiquidity ==
    ( /\ pc = "done"
      /\ reserveData # <<>>
      /\ \/ ParseReserves(reserveData).reserve0 = <<>>
         \/ ParseReserves(reserveData).reserve1 = <<>> )
    => err = ErrInsufficientLiquidity

\* C14: when both token slots were read and token0 or token1 is the zero
\* address, LoadTokens fails with ErrPoolNotFound, the request ends with
\* ErrNotFound and the reserves slot is never read.
C14_ZeroTokenIsNotFound ==
    ( /\ token0Data # <<>> /\ token1Data # <<>>
      /\ \/ BytesToAddress(token0Data) = ZeroAddress
         \/ BytesToAddress(token1Data) = ZeroAddress )
    => /\ pc = "done"
       /\ cause = ErrPoolNotFound
       /\ err = ErrNotFound
       /\ amountOut = Nil
       /\ reserveData = <<>>
       /\ \A i \in 1 .. Len(calls) :
             calls[i].key # StorageKey(UniswapV2ReservesStorageSlot)

C14_Witness ==
    /\ pc = "done"
    /\ token0Data = <<1, "A">> /\ token1Data = <<0, ZeroAddress>>
    /\ err = ErrNotFound /\ cause = ErrPoolNotFound
    /\ Len(calls) = 3

\* C15: when the latest-block-height call or the read of slot 6, 7 or 8
\* fails, the request ends with ErrExternalService.
C15_ChainFailureIsExternalService ==
    ( /\ pc = "done"
      /\ cause \in {ErrRPCTimeout, ErrConnectionFailed, ErrStorageReadFailed} )
    => err = ErrExternalService

\* C17: the collaborator operations of one request are invoked in the order
\* block height, slot 6, slot 7, slot 8, reserve ordering, each at most
\* once; the amount is computed only after all five; and once a step has
\* failed the request is over, with that failure and without an amount.
ExpectedCalls ==
    << <<"GetLatestBlockNumber", 0>>,
       <<"ReadContractStorage", StorageKey(UniswapV2Token0StorageSlot)>>,
       <<"ReadContractStorage", StorageKey(UniswapV2Token1StorageSlot)>>,
       <<"ReadContractStorage", StorageKey(UniswapV2ReservesStorageSlot)>>,
       <<"DetermineReserveOrder", 0>> >>

C17_StepOrder ==
    /\ Len(calls) <= Len(ExpectedCalls)
    /\ \A i \in 1 .. Len(calls) :
          <<calls[i].op, calls[i].key>> = ExpectedCalls[i]
    /\ (pc = "calculate" \/ amountOut # Nil) =>
          (Len(calls) = Len(ExpectedCalls) /\ err = NoErr)
    /\ err # NoErr => (pc = "done" /\ amountOut = Nil)
    /\ (pc = "done" /\ cause \in {ErrRPCTimeout, ErrConnectionFailed, ErrStorageReadFailed}) =>
          \/ Len(calls) = 1 /\ blockNumber = 0
          \/ Len(calls) = 2 /\ token0Data = <<>>
          \/ Len(calls) = 3 /\ token1Data = <<>>
          \/ Len(calls) = 4 /\ reserveData = <<>>

C17_Witness ==
    /\ pc = "done"
    /\ Len(calls) = 3
    /\ cause = ErrStorageReadFailed
    /\ token0Data # <<>> /\ token1Data = <<>>
    /\ err # NoErr /\ amountOut = Nil

\* C18: a finished request has either an amount and no error, or no amount
\* and an error of exactly one kind of the taxonomy (validation, not found,
\* insufficient liquidity, token pair mismatch, external service).
C18_ExactlyOneOutcome ==
    pc = "done" =>
       \/ amountOut # Nil /\ err = NoErr
       \/ /\ amountOut = Nil
          /\ err \in {ErrValidation, ErrNotFound, ErrInsufficientLiquidity,
                      ErrTokenPairMismatch, ErrExternalService}

(***************************************************************************)
(* Goroutines sharing utils.GlobalBigIntPool.                              *)
(*                                                                         *)
(* A *big.Int is an index into heap; the package-level integers have the   *)
(* first indices.  The body of each function is the list of its            *)
(* statements, one instruction per statement, over the function's local    *)
(* variables; a goroutine executes its list one statement at a time.       *)
(***************************************************************************)
\* two goroutines: the pool is shared pairwise
Goroutines == {1, 2}

GlobalNames ==
    <<"FeeBasisPoints1000", "FeeBasisPoints997", "FeeBasisPoints995",
      "FeeBasisPoints990", "Mask112">>

GlobalHeap ==
    <<FeeBasisPoints1000, FeeBasisPoints997, FeeBasisPoints995,
      FeeBasisPoints990, Mask112>>

GlobalRef(name) == CHOOSE i \in 1 .. Len(GlobalNames) : GlobalNames[i] = name

IsGlobal(name) == \E i \in 1 .. Len(GlobalNames) : GlobalNames[i] = name

\* the arguments of a job, passed by the caller and never pooled
InputNames == {"amountIn", "reserveIn", "reserveOut"}

\* the local *big.Int variables of the functions
Locals ==
    {"t1", "t2", "feeMultiplier", "amountOut", "numerator", "denominator",
     "tmpCalc", "result", "v", "tmp", "reserve0", "reserve1", "result0",
     "result1", "blockNum"}

NoLocals == [l \in Locals |-> 0]

Ins(op, z, x, y, r, n, fn) ==
    [op |-> op, z |-> z, x |-> x, y |-> y, r |-> r, n |-> n, fn |-> fn]

Get(z, fn) == Ins("Get", z, "", "", "", 0, fn)
Put(x, fn) == Ins("Put", "", x, "", "", 0, fn)
Alias(z, x) == Ins("Alias", z, x, "", "", 0, "")
SetInt64(z, n) == Ins("SetInt64", z, "", "", "", n, "")
SetUint64(z) == Ins("SetUint64", z, "", "", "", 0, "")
InsSetBytes(z) == Ins("SetBytes", z, "", "", "", 0, "")
Mul(z, x, y) == Ins("Mul", z, x, y, "", 0, "")
Add(z, x, y) == Ins("Add", z, x, y, "", 0, "")
And(z, x, y) == Ins("And", z, x, y, "", 0, "")
Div(z, x, y) == Ins("Div", z, x, y, "", 0, "")
Rsh(z, x, n) == Ins("Rsh", z, x, "", "", n, "")
InsQuoRem(z, x, y, r) == Ins("QuoRem", z, x, y, r, 0, "")
BlockNumber(fn) == Ins("BlockNumber", "", "", "", "", 0, fn)
ReadStorageSlot(x, slot, fn) == Ins("ReadStorageSlot", "", x, "", "", slot, fn)
Ret(fn, x, y) == Ins("Ret", "", x, y, "", 0, fn)

\* Mutant: the result is the scratch integer itself, not a copy of it
NewSet_Alias(z, x) == Ins("Alias", z, x, "", "", 0, "")

\* z := new(big.Int).Set(x)
NewSet(z, x) == Ins("NewSet", z, x, "", "", 0, "")

\* Mutant: every fee is taken for a preset, so feeMultiplier is never put back
IsPresetFee_Always(fee) == TRUE

\* feeBasisPoints is 3, 5 or 10 (part_006:131)
IsPresetFee(fee) == fee = 3 \/ fee = 5 \/ fee = 10

\* CalculateSwapAmount, part_006:102-134 (the result goes into amountOut)
CalculateSwapAmountCode(fee) ==
    <<Get("t1", "CalculateSwapAmount"),
      Get("t2", "CalculateSwapAmount")>>
    \o (CASE fee = 3 -> <<Alias("feeMultiplier", "FeeBasisPoints997")>>
          [] fee = 5 -> <<Alias("feeMultiplier", "FeeBasisPoints995")>>
          [] fee = 10 -> <<Alias("feeMultiplier", "FeeBasisPoints990")>>
          [] OTHER -> <<Get("feeMultiplier", "CalculateSwapAmount"),
                        SetInt64("feeMultiplier", 1000 - fee)>>)
    \o <<Mul("t1", "amountIn", "feeMultiplier"),
         Mul("amountOut", "reserveIn", "FeeBasisPoints1000"),
         Add("t2", "amountOut", "t1"),
         Mul("amountOut", "t1", "reserveOut"),
         InsQuoRem("amountOut", "amountOut", "t2", "t1"),
         Put("t1", "CalculateSwapAmount"),
         Put("t2", "CalculateSwapAmount")>>
    \o (IF ~IsPresetFee(fee)
        THEN <<Put("feeMultiplier", "CalculateSwapAmount")>>
        ELSE <<>>)
    \o <<Ret("CalculateSwapAmount", "", "")>>

\* TestGlobalPoolIntegration, uniswap_math_benchmark_test.go:43-45: the
\* caller takes amountOut from the pool and keeps it
CalculateSwapAmountIntoCode(fee) ==
    <<Get("amountOut", "caller")>>
    \o CalculateSwapAmountCode(fee)
    \o <<Ret("caller", "amountOut", "")>>

\* CalculateSwapAmount, part_005:101-133 (the result is returned)
CalculateSwapAmountRetCode(fee) ==
    <<Get("numerator", "CalculateSwapAmount"),
      Get("denominator", "CalculateSwapAmount"),
      Get("tmpCalc", "CalculateSwapAmount")>>
    \o (CASE fee = 3 -> <<Mul("numerator", "amountIn", "FeeBasisPoints997")>>
          [] fee = 5 -> <<Mul("numerator", "amountIn", "FeeBasisPoints995")>>
          [] fee = 10 -> <<Mul("numerator", "amountIn", "FeeBasisPoints990")>>
          [] OTHER -> <<Get("feeMultiplier", "CalculateSwapAmount"),
                        SetInt64("feeMultiplier", 1000 - fee),
                        Mul("numerator", "amountIn", "feeMultiplier"),
                        Put("feeMultiplier", "CalculateSwapAmount")>>)
    \o <<Mul("tmpCalc", "reserveIn", "FeeBasisPoints1000"),
         Add("denominator", "tmpCalc", "numerator"),
         Mul("tmpCalc", "numerator", "reserveOut"),
         Div("tmpCalc", "tmpCalc", "denominator"),
         Alias("result", "tmpCalc"),
         NewSet("amountOut", "result"),
         Put("numerator", "CalculateSwapAmount"),
         Put("denominator", "CalculateSwapAmount"),
         Put("tmpCalc", "CalculateSwapAmount"),
         Ret("CalculateSwapAmount", "amountOut", "")>>

\* ParseReservesWithPool, part_006:74-96
ParseReservesWithPoolCode ==
    <<Get("v", "ParseReservesWithPool"),
      InsSetBytes("v"),
      Get("tmp", "ParseReservesWithPool"),
      Get("reserve0", "ParseReservesWithPool"),
      Get("reserve1", "ParseReservesWithPool"),
      And("reserve0", "v", "Mask112"),
      Rsh("tmp", "v", 112),
      And("reserve1", "tmp", "Mask112"),
      Put("v", "ParseReservesWithPool"),
      Put("tmp", "ParseReservesWithPool"),
      NewSet("result0", "reserve0"),
      NewSet("result1", "reserve1"),
      Put("reserve0", "ParseReservesWithPool"),
      Put("reserve1", "ParseReservesWithPool"),
      Ret("ParseReservesWithPool", "result0", "result1")>>

\* Mutant: the release of blockNum is not deferred but made at once
EstimateSwapAmountCode_PutNotDeferred ==
    <<BlockNumber("EstimateSwapAmount"),
      Get("blockNum", "EstimateSwapAmount"),
      SetUint64("blockNum"),
      Put("blockNum", "EstimateSwapAmount"),
      ReadStorageSlot("blockNum", UniswapV2Token0StorageSlot, "EstimateSwapAmount"),
      ReadStorageSlot("blockNum", UniswapV2Token1StorageSlot, "EstimateSwapAmount"),
      ReadStorageSlot("blockNum", UniswapV2ReservesStorageSlot, "EstimateSwapAmount")>>
    \o CalculateSwapAmountRetCode(3)
    \o <<Ret("EstimateSwapAmount", "amountOut", "")>>

\* EstimateSwapAmount, estimate.go:82-111, as far as the pool and the chain
\* reader see it: the block height, the scratch integer holding it, the
\* three storage reads made with it, the swap computation, and the
\* deferred release.  A failed call returns through the deferred release.
EstimateSwapAmountCode ==
    <<BlockNumber("EstimateSwapAmount"),
      Get("blockNum", "EstimateSwapAmount"),
      SetUint64("blockNum"),
      ReadStorageSlot("blockNum", UniswapV2Token0StorageSlot, "EstimateSwapAmount"),
      ReadStorageSlot("blockNum", UniswapV2Token1StorageSlot, "EstimateSwapAmount"),
      ReadStorageSlot("blockNum", UniswapV2ReservesStorageSlot, "EstimateSwapAmount")>>
    \o CalculateSwapAmountRetCode(3)
    \o <<Put("blockNum", "EstimateSwapAmount"),
         Ret("EstimateSwapAmount", "amountOut", "")>>

\* GlobalBigIntPool.Put(x) with x a nil *big.Int
PutNilCode == <<Put("v", "caller"), Ret("caller", "", "")>>

CodeOf(kind, fee) ==
    CASE kind = "CalculateSwapAmount" -> CalculateSwapAmountIntoCode(fee)
      [] kind = "CalculateSwapAmountRet" -> CalculateSwapAmountRetCode(fee)
      [] kind = "ParseReservesWithPool" -> ParseReservesWithPoolCode
      [] kind = "EstimateSwapAmount" -> EstimateSwapAmountCode
      [] kind = "Put" -> PutNilCode

\* a fee that is none of the presets 3, 5, 10
NonPresetFee == 7

Job(kind, fee, amtIn, resIn, resOut, bytes) ==
    [kind |-> kind, fee |-> fee, amountIn |-> amtIn, reserveIn |-> resIn,
     reserveOut |-> resOut, b |-> bytes]

\* the calls a goroutine may be making: the fixture of the tests and a small
\* pool, with a preset and with a non-preset fee
JobList ==
    << Job("CalculateSwapAmount", 3, natOf(FixtureAmount),
          natOf(FixtureReserve), natOf(FixtureReserve), <<>>),
      Job("CalculateSwapAmount", NonPresetFee, natOf(2), natOf(1),
          natOf(MaxReserve), <<>>),
      Job("CalculateSwapAmountRet", NonPresetFee, natOf(FixtureAmount),
          natOf(FixtureReserve), natOf(FixtureReserve), <<>>),
      Job("ParseReservesWithPool", 0, <<>>, <<>>, <<>>,
          PackWord(natOf(1), natOf(MaxReserve), <<255, 255, 255, 255>>)),
      Job("EstimateSwapAmount", 3, natOf(FixtureAmount),
          natOf(FixtureReserve), natOf(FixtureReserve), <<>>),
      Job("Put", 0, <<>>, <<>>, <<>>, <<>>) >>

Jobs == {JobList[i] : i \in 1 .. Len(JobList)}

\* the statements of each job
JobCode == [j \in Jobs |-> CodeOf(j.kind, j.fee)]

Code(j) == JobCode[j]

InitPool ==
    /\ MathIdle /\ DecIdle /\ EstIdle /\ OrdIdle /\ WebIdle
    /\ heap = GlobalHeap
    /\ free = EmptyBag
    /\ \E a \in 1 .. Len(JobList), b \in 1 .. Len(JobList) :
          a <= b /\ job = <<JobList[a], JobList[b]>>
    /\ gpc = [g \in Goroutines |-> 1]
    /\ loc = [g \in Goroutines |-> NoLocals]
    /\ borrowed = [g \in Goroutines |-> EmptyBag]
    /\ returned = [g \in Goroutines |-> EmptyBag]
    /\ results = <<>>
    /\ misuse = FALSE
    /\ blockNumberOf = [g \in Goroutines |-> 0]
    /\ reads = [g \in Goroutines |-> <<>>]

poolOther == <<mathVars, decVars, estVars, ordVars, webVars, job>>

Running(g) == gpc[g] <= Len(Code(job[g]))

Cur(g) == Code(job[g])[gpc[g]]

\* the integer a name denotes for goroutine g, and its value
Ref(g, name) == IF IsGlobal(name) THEN GlobalRef(name) ELSE loc[g][name]

Val(g, name) ==
    IF name \in InputNames THEN job[g][name] ELSE heap[Ref(g, name)]

\* a statement of g uses an integer that sits in the pool
UsesReleased(g, names) ==
    \E name \in names \ (InputNames \cup {""}) : BagIn(Ref(g, name), free)

\* new(big.Int): the n-th integer goroutine g allocates has an index of its
\* own, whatever the other goroutines allocate meanwhile
AllocatedBy(g) ==
    {id \in DOMAIN heap :
        id > Len(GlobalHeap)
        /\ (id - Len(GlobalHeap) - 1) % Cardinality(Goroutines) = g - 1}

FreshRef(g) ==
    Len(GlobalHeap) + Cardinality(Goroutines) * Cardinality(AllocatedBy(g)) + g

\* a Get that leaves the integer it hands out in the pool
PoolGet_Shared(g) ==
    /\ Running(g) /\ Cur(g).op = "Get"
    /\ \/ \E id \in BagToSet(free) :
             /\ loc' = [loc EXCEPT ![g][Cur(g).z] = id]
             /\ borrowed' = [borrowed EXCEPT
                               ![g] = @ (+) SetToBag({<<Cur(g).fn, id>>})]
             /\ UNCHANGED heap
       \/ /\ heap' = heap @@ (FreshRef(g) :> <<>>)
          /\ loc' = [loc EXCEPT ![g][Cur(g).z] = FreshRef(g)]
          /\ borrowed' = [borrowed EXCEPT
                            ![g] = @ (+) SetToBag({<<Cur(g).fn, FreshRef(g)>>})]
    /\ gpc' = [gpc EXCEPT ![g] = @ + 1]
    /\ UNCHANGED <<poolOther, free, returned, results, misuse, blockNumberOf,
                   reads>>

\* BigIntPool.Get: sync.Pool hands out one of its integers, or a new one
PoolGet(g) ==
    /\ Running(g) /\ Cur(g).op = "Get"
    /\ \/ \E id \in BagToSet(free) :
             /\ free' = free (-) SetToBag({id})
             /\ loc' = [loc EXCEPT ![g][Cur(g).z] = id]
             /\ borrowed' = [borrowed EXCEPT
                               ![g] = @ (+) SetToBag({<<Cur(g).fn, id>>})]
             /\ UNCHANGED heap
       \/ /\ heap' = heap @@ (FreshRef(g) :> <<>>)
          /\ loc' = [loc EXCEPT ![g][Cur(g).z] = FreshRef(g)]
          /\ borrowed' = [borrowed EXCEPT
                            ![g] = @ (+) SetToBag({<<Cur(g).fn, FreshRef(g)>>})]
          /\ UNCHANGED free
    /\ gpc' = [gpc EXCEPT ![g] = @ + 1]
    /\ UNCHANGED <<poolOther, returned, results, misuse, blockNumberOf, reads>>

\* a Put that hands the integer to sync.Pool with the value it holds
PoolPut_NoReset(g) ==
    /\ Running(g) /\ Cur(g).op = "Put"
    /\ LET id == Ref(g, Cur(g).x)
       IN IF id = 0
          THEN UNCHANGED <<free, returned, misuse>>
          ELSE /\ free' = free (+) SetToBag({id})
               /\ returned' = [returned EXCEPT
                                 ![g] = @ (+) SetToBag({<<Cur(g).fn, id>>})]
               /\ misuse' = (misuse \/ BagIn(id, free))
    /\ gpc' = [gpc EXCEPT ![g] = @ + 1]
    /\ UNCHANGED <<poolOther, heap, loc, borrowed, results, blockNumberOf,
                   reads>>

\* BigIntPool.Put: a non-nil integer is reset to zero and handed to sync.Pool
PoolPut(g) ==
    /\ Running(g) /\ Cur(g).op = "Put"
    /\ LET id == Ref(g, Cur(g).x)
       IN IF id = 0
          THEN UNCHANGED <<heap, free, returned, misuse>>
          ELSE /\ heap' = [heap EXCEPT ![id] = <<>>]
               /\ free' = free (+) SetToBag({id})
               /\ returned' = [returned EXCEPT
                                 ![g] = @ (+) SetToBag({<<Cur(g).fn, id>>})]
               /\ misuse' = (misuse \/ BagIn(id, free))
    /\ gpc' = [gpc EXCEPT ![g] = @ + 1]
    /\ UNCHANGED <<poolOther, loc, borrowed, results, blockNumberOf, reads>>

\* z = x (a pointer assignment)
SetAlias(g) ==
    /\ Running(g) /\ Cur(g).op = "Alias"
    /\ loc' = [loc EXCEPT ![g][Cur(g).z] = Ref(g, Cur(g).x)]
    /\ gpc' = [gpc EXCEPT ![g] = @ + 1]
    /\ UNCHANGED <<poolOther, heap, free, borrowed, returned, results, misuse,
                   blockNumberOf, reads>>

\* z.SetInt64(n), z.SetUint64(blockNumber), z.SetBytes(b)
SetValue(g) ==
    /\ Running(g) /\ Cur(g).op \in {"SetInt64", "SetUint64", "SetBytes"}
    /\ LET val == CASE Cur(g).op = "SetInt64" -> natOf(Cur(g).n)
                    [] Cur(g).op = "SetUint64" -> natOf(blockNumberOf[g])
                    [] Cur(g).op = "SetBytes" -> SetBytes(job[g].b)
       IN heap' = [heap EXCEPT ![Ref(g, Cur(g).z)] = val]
    /\ misuse' = (misuse \/ UsesReleased(g, {Cur(g).z}))
    /\ gpc' = [gpc EXCEPT ![g] = @ + 1]
    /\ UNCHANGED <<poolOther, free, loc, borrowed, returned, results,
                   blockNumberOf, reads>>

\* z.Mul(x, y), z.Add(x, y), z.And(x, y), z.Div(x, y), z.Rsh(x, n)
Arith(g) ==
    /\ Running(g) /\ Cur(g).op \in {"Mul", "Add", "And", "Div", "Rsh"}
    /\ LET xv == Val(g, Cur(g).x)
           val == CASE Cur(g).op = "Mul" -> natMul(xv, Val(g, Cur(g).y))
                    [] Cur(g).op = "Add" -> natAdd(xv, Val(g, Cur(g).y))
                    [] Cur(g).op = "And" -> natAnd(xv, Val(g, Cur(g).y))
                    [] Cur(g).op = "Div" -> QuoRem(xv, Val(g, Cur(g).y)).quo
                    [] Cur(g).op = "Rsh" -> natRsh(xv, Cur(g).n)
       IN heap' = [heap EXCEPT ![Ref(g, Cur(g).z)] = val]
    /\ misuse' = (misuse \/ UsesReleased(g, {Cur(g).z, Cur(g).x, Cur(g).y}))
    /\ gpc' = [gpc EXCEPT ![g] = @ + 1]
    /\ UNCHANGED <<poolOther, free, loc, borrowed, returned, results,
                   blockNumberOf, reads>>

\* z.QuoRem(x, y, r)
ArithQuoRem(g) ==
    /\ Running(g) /\ Cur(g).op = "QuoRem"
    /\ LET qr == QuoRem(Val(g, Cur(g).x), Val(g, Cur(g).y))
       IN heap' = [heap EXCEPT ![Ref(g, Cur(g).r)] = qr.rem,
                               ![Ref(g, Cur(g).z)] = qr.quo]
    /\ misuse' = (misuse \/ UsesReleased(g, {Cur(g).z, Cur(g).x, Cur(g).y, Cur(g).r}))
    /\ gpc' = [gpc EXCEPT ![g] = @ + 1]
    /\ UNCHANGED <<poolOther, free, loc, borrowed, returned, results,
                   blockNumberOf, reads>>

\* z := new(big.Int).Set(x)
NewCopy(g) ==
    /\ Running(g) /\ Cur(g).op = "NewSet"
    /\ heap' = heap @@ (FreshRef(g) :> Val(g, Cur(g).x))
    /\ loc' = [loc EXCEPT ![g][Cur(g).z] = FreshRef(g)]
    /\ misuse' = (misuse \/ UsesReleased(g, {Cur(g).x}))
    /\ gpc' = [gpc EXCEPT ![g] = @ + 1]
    /\ UNCHANGED <<poolOther, free, borrowed, returned, results,
                   blockNumberOf, reads>>

\* GetLatestBlockNumber (estimate.go:82-85): the height the chain reports, or
\* a failure, on which the request returns before anything is acquired
ChainBlockNumber(g) ==
    /\ Running(g) /\ Cur(g).op = "BlockNumber"
    /\ reads' = [reads EXCEPT ![g] =
                    Append(@, [op |-> "GetLatestBlockNumber", key |-> 0,
                               block |-> <<>>])]
    /\ \/ /\ \E h \in 1 .. MaxBlock :
                blockNumberOf' = [blockNumberOf EXCEPT ![g] = h]
          /\ gpc' = [gpc EXCEPT ![g] = @ + 1]
       \/ /\ gpc' = [gpc EXCEPT ![g] = Len(Code(job[g]))]
          /\ UNCHANGED blockNumberOf
    /\ UNCHANGED <<poolOther, heap, free, loc, borrowed, returned, results,
                   misuse>>

\* ReadStorageSlot (uniswap_v2.go:66-70) with the height *blockNum holds at
\* the call; on a failure the request returns through the deferred Put
ChainReadStorageSlot(g) ==
    /\ Running(g) /\ Cur(g).op = "ReadStorageSlot"
    /\ reads' = [reads EXCEPT ![g] =
                    Append(@, [op |-> "ReadContractStorage",
                               key |-> StorageKey(Cur(g).n),
                               block |-> Val(g, Cur(g).x)])]
    /\ misuse' = (misuse \/ UsesReleased(g, {Cur(g).x}))
    /\ \/ gpc' = [gpc EXCEPT ![g] = @ + 1]
       \/ gpc' = [gpc EXCEPT ![g] = Len(Code(job[g])) - 1]
    /\ UNCHANGED <<poolOther, heap, free, loc, borrowed, returned, results,
                   blockNumberOf>>

\* a function returns; the caller of the job keeps the integers the job
\* returned to it
Return(g) ==
    /\ Running(g) /\ Cur(g).op = "Ret"
    /\ LET kept == SelectSeq(<<Cur(g).x, Cur(g).y>>,
                             LAMBDA name : name # "" /\ Ref(g, name) # 0)
       IN IF gpc[g] = Len(Code(job[g]))
          THEN results' = results \o
                  [i \in 1 .. Len(kept) |->
                      [g |-> g, k |-> i, ref |-> Ref(g, kept[i]),
                       val |-> heap[Ref(g, kept[i])]]]
          ELSE UNCHANGED results
    /\ gpc' = [gpc EXCEPT ![g] = @ + 1]
    /\ UNCHANGED <<poolOther, heap, free, loc, borrowed, returned, misuse,
                   blockNumberOf, reads>>

NextPool ==
    \E g \in Goroutines :
          \/ PoolGet(g)
          \/ PoolPut(g)
          \/ SetAlias(g)
          \/ SetValue(g)
          \/ Arith(g)
          \/ ArithQuoRem(g)
          \/ NewCopy(g)
          \/ ChainBlockNumber(g)
          \/ ChainReadStorageSlot(g)
          \/ Return(g)

SpecPool == InitPool /\ [][NextPool]_vars

\* C16: a request fetches the block height once, first, and issues its
\* reads of slot 6, 7 and 8, in this order, all with the height it fetched,
\* whatever the other goroutine does with the shared pool meanwhile.
C16_SameBlockHeight ==
    \A g \in Goroutines :
       job[g].kind = "EstimateSwapAmount" =>
          /\ Len(reads[g]) <= 4
          /\ \A i \in 1 .. Len(reads[g]) :
                IF i = 1
                THEN reads[g][i].op = "GetLatestBlockNumber"
                ELSE /\ reads[g][i].op = "ReadContractStorage"
                     /\ reads[g][i].key =
                           StorageKey(UniswapV2Token0StorageSlot + i - 2)
                     /\ reads[g][i].block = natOf(blockNumberOf[g])
                     /\ blockNumberOf[g] >= 1

C16_Witness ==
    /\ job[1].kind = "EstimateSwapAmount"
    /\ job[2].kind = "EstimateSwapAmount"
    /\ Len(reads[1]) = 4 /\ Len(reads[2]) = 4
    /\ reads[1][4].block = natOf(1)
    /\ reads[2][4].block = natOf(MaxBlock)
    /\ loc[1]["blockNum"] = loc[2]["numerator"]

\* C19: no integer is put back more often than it was taken and none sits
\* in the pool twice; and when CalculateSwapAmount (preset fee or not),
\* ParseReservesWithPool or EstimateSwapAmount (on every path after it took
\* blockNum) returns, each integer it took from the pool has been put back
\* exactly once.
C19_AcquireReleaseBalance ==
    /\ \A id \in BagToSet(free) : CopiesIn(id, free) = 1
    /\ \A g \in Goroutines :
          /\ \A e \in BagToSet(returned[g]) :
                CopiesIn(e, returned[g]) = 1 /\ BagIn(e, borrowed[g])
          /\ (Running(g) /\ Cur(g).op = "Ret" /\ Cur(g).fn # "caller") =>
                \A e \in BagToSet(borrowed[g]) :
                   e[1] = Cur(g).fn =>
                      (CopiesIn(e, borrowed[g]) = 1 /\ CopiesIn(e, returned[g]) = 1)

C19_Witness ==
    /\ job[1].kind = "CalculateSwapAmount" /\ job[1].fee = NonPresetFee
    /\ Running(1) /\ Cur(1).op = "Ret" /\ Cur(1).fn = "CalculateSwapAmount"
    /\ BagCardinality(borrowed[1]) = 4
    /\ BagCardinality(returned[1]) = 3
    /\ job[2].kind = "EstimateSwapAmount"
    /\ ~Running(2)
    /\ Len(reads[2]) = 2
    /\ BagCardinality(returned[2]) = 1

\* C20: no statement uses an integer that sits in the pool; an integer a
\* call returned is not in the pool and keeps the value it was returned
\* with, whatever is acquired, computed and released afterwards; and calls
\* on equal inputs hold equal results.
C20_NoUseAfterReturn ==
    /\ ~misuse
    /\ \A i \in 1 .. Len(results) :
          /\ ~BagIn(results[i].ref, free)
          /\ heap[results[i].ref] = results[i].val
          /\ \A j \in 1 .. Len(results) :
                (job[results[i].g] = job[results[j].g] /\ results[i].k = results[j].k)
                => results[i].val = results[j].val
          /\ \A j \in 1 .. Len(results) : i # j => results[i].ref # results[j].ref

C20_Witness ==
    /\ job[1].kind = "CalculateSwapAmountRet"
    /\ job[2].kind = "CalculateSwapAmountRet"
    /\ Len(results) = 2
    /\ results[1].g = 1 /\ results[2].g = 2
    /\ results[1].val = results[2].val
    /\ results[1].val # <<>>
    /\ loc[2]["numerator"] = loc[1]["tmpCalc"]

\* the integers goroutine g has taken from the pool and not put back
Held(g) == BagToSet(borrowed[g] (-) returned[g])

HeldRefs(g) == {e[2] : e \in Held(g)}

\* what a single-threaded run of the job returns as its k-th result
SingleThreaded(j, k) ==
    CASE j.kind = "CalculateSwapAmount" ->
            CalculateSwapAmount(j.amountIn, j.reserveIn, j.reserveOut, j.fee)
      [] j.kind \in {"CalculateSwapAmountRet", "EstimateSwapAmount"} ->
            CalculateSwapAmountRet(j.amountIn, j.reserveIn, j.reserveOut, j.fee)
      [] j.kind = "ParseReservesWithPool" ->
            IF k = 1 THEN ParseReserves(j.b).reserve0
                     ELSE ParseReserves(j.b).reserve1

\* C21: under every interleaving of the statements of the goroutines, no
\* integer taken from the shared pool is held by two goroutines at once or
\* sits in the pool while it is held, and every call returns what a
\* single-threaded run on the same inputs returns.
C21_NoCrossTalk ==
    /\ \A g \in Goroutines, h \in Goroutines :
          g # h => HeldRefs(g) \cap HeldRefs(h) = {}
    /\ \A g \in Goroutines : HeldRefs(g) \cap BagToSet(free) = {}
    /\ \A i \in 1 .. Len(results) :
          results[i].val = SingleThreaded(job[results[i].g], results[i].k)

C21_Witness ==
    /\ job[1].kind = "CalculateSwapAmount" /\ job[1].fee = 3
    /\ job[2].kind = "CalculateSwapAmount" /\ job[2].fee = NonPresetFee
    /\ Len(results) = 2
    /\ results[1].g = 2 /\ results[2].g = 1
    /\ results[1].val # <<>>
    /\ natCmp(results[1].val, natOf(MaxReserve)) < 0
    /\ results[2].val = natOf(996)
    /\ loc[1]["t2"] = loc[2]["t1"]
    /\ loc[1]["t1"] = loc[2]["feeMultiplier"]

\* C22: every integer that sits in the pool has value zero; Put(nil)
\* leaves the pool and every integer unchanged; Get returns a non-nil
\* integer, and one that did not exist before when the pool is empty.
C22_PutResetsGetNonNil ==
    /\ [](/\ \A id \in BagToSet(free) : heap[id] = <<>>
          /\ \A g \in Goroutines : \A e \in BagToSet(borrowed[g]) :
                e[2] # 0 /\ e[2] \in DOMAIN heap)
    /\ [][\A g \in Goroutines :
            (Running(g) /\ gpc'[g] # gpc[g]) =>
               /\ (Cur(g).op = "Put" /\ Ref(g, Cur(g).x) = 0) =>
                     (free' = free /\ heap' = heap)
               /\ Cur(g).op = "Get" =>
                     /\ loc'[g][Cur(g).z] # 0
                     /\ loc'[g][Cur(g).z] \in DOMAIN heap'
                     /\ free = EmptyBag => loc'[g][Cur(g).z] \notin DOMAIN heap]_vars

C22_Witness ==
    /\ job[1].kind = "CalculateSwapAmountRet"
    /\ job[2].kind = "Put"
    /\ gpc[2] = 2
    /\ BagCardinality(free) >= 3
    /\ Len(results) = 1
    /\ results[1].val = natOf(992)

\* C25: for amountIn, reserveIn, reserveOut > 0 and 0 <= fee < 1000 the
\* amount CalculateSwapAmount returns (either revision) is a non-negative
\* integer strictly less than reserveOut.
C25_LessThanReserveOut ==
    /\ mpc # "ready" =>
          /\ IsNat(amountOut)
          /\ natCmp(amountOut, reserveOut) < 0
    /\ mpc = "done" =>
          /\ IsNat(amountOutRet)
          /\ natCmp(amountOutRet, reserveOut) < 0

C25_Witness ==
    /\ mpc = "done"
    /\ feeBasisPoints = 0
    /\ natCmp(amountIn, reserveIn) > 0
    /\ amountOut # <<>>
    /\ natAdd(amountOut, natOf(1)) = reserveOut
    /\ amountOutRet = amountOut

(***************************************************************************)
(* Storage key of a slot: ReadStorageSlot is called with a slot index and  *)
(* builds the 32-byte key it queries the contract storage with.            *)
(***************************************************************************)
MaxSlot == 300

SlotSet == 0 .. MaxSlot

\* byte(slot): the conversion of a uint64 to a byte keeps the low 8 bits
ByteOf(n) == n % 256

\* var key [32]byte; key[31] = byte(slot)
StorageKeyBytes(s) ==
    [i \in 1 .. WordBytes |-> IF i = WordBytes THEN ByteOf(s) ELSE 0]

InitSlot ==
    /\ MathIdle /\ DecIdle /\ EstIdle /\ OrdIdle /\ PoolIdle
    /\ HttpIdle /\ LimIdle /\ SrvIdle
    /\ slotpc = "ready"
    /\ slotIndex \in SlotSet
    /\ storageKey = <<>>

CallReadStorageSlot ==
    /\ slotpc = "ready"
    /\ storageKey' = StorageKeyBytes(slotIndex)
    /\ slotpc' = "done"
    /\ UNCHANGED <<mathVars, decVars, estVars, ordVars, poolVars, httpVars,
                   limVars, srvVars, slotIndex>>

NextSlot == CallReadStorageSlot

SpecSlot == InitSlot /\ [][NextSlot]_vars

\* C30: for every slot index s, the key ReadStorageSlot queries, read as a
\* 256-bit big-endian integer, equals s (so different slot indices read
\* different keys).
C30_KeyEqualsSlot ==
    slotpc = "done" => SetBytes(storageKey) = natOf(slotIndex)

(***************************************************************************)
(* HTTP handler of GET /estimate.  Query values and the response body are  *)
(* sequences of characters; amounts are unbounded integers.                *)
(***************************************************************************)
ErrInvalidInput == "ErrInvalidInput"
ErrTimeout == "ErrTimeout"
ErrInternal == "ErrInternal"

StatusOK == 200
StatusBadRequest == 400
StatusNotFound == 404
StatusInternalServerError == 500
StatusBadGateway == 502
StatusGatewayTimeout == 504

DigitChars == <<"0", "1", "2", "3", "4", "5", "6", "7", "8", "9">>

IsDigit(c) == \E i \in 1 .. Len(DigitChars) : DigitChars[i] = c

DigitVal(c) == (CHOOSE i \in 1 .. Len(DigitChars) : DigitChars[i] = c) - 1

\* the number a string of decimal digits denotes, digit by digit
RECURSIVE natFromDecimal(_)
natFromDecimal(s) ==
    IF s = <<>> THEN <<>>
    ELSE natAdd(natMul(natFromDecimal(SubSeq(s, 1, Len(s) - 1)), natOf(10)),
                natOf(DigitVal(s[Len(s)])))

\* big.Int.String of a non-negative integer
RECURSIVE natToDecimal(_)
natToDecimal(x) ==
    IF x = <<>> THEN <<>>
    ELSE LET qr == natDivMod(x, natOf(10))
         IN Append(natToDecimal(qr.quo),
                   DigitChars[(IF qr.rem = <<>> THEN 0 ELSE qr.rem[1]) + 1])

BigIntString(x) == IF x = <<>> THEN <<"0">> ELSE natToDecimal(x)

\* the largest int64, 1<<63 - 1
MaxInt64 == natSub(natLsh(natOf(1), 63), natOf(1))

\* strconv.ParseInt(s, 10, 64): an optional sign and decimal digits; the
\* value must fit a signed 64-bit integer
ParseInt(s) ==
    LET signed == s # <<>> /\ s[1] \in {"+", "-"}
        neg    == s # <<>> /\ s[1] = "-"
        digits == IF signed THEN Tail(s) ELSE s
        fail(e) == [err |-> e, neg |-> FALSE, abs |-> <<>>]
    IN IF digits = <<>> \/ \E i \in 1 .. Len(digits) : ~IsDigit(digits[i])
       THEN fail("ErrSyntax")
       ELSE LET abs == natFromDecimal(digits)
                cutoff == IF neg THEN natAdd(MaxInt64, natOf(1)) ELSE MaxInt64
            IN IF natCmp(abs, cutoff) > 0
               THEN fail("ErrRange")
               ELSE [err |-> "none", neg |-> neg, abs |-> abs]

\* ctx.QueryArgs().Peek(key): the value of the first argument named key,
\* empty when the request has none
Peek(q, k) ==
    LET hits == SelectSeq(q, LAMBDA kv : kv[1] = k)
    IN IF hits = <<>> THEN <<>> ELSE hits[1][2]

parseEstimateParams(q) ==
    LET poolBytes      == Peek(q, "pool")
        srcBytes       == Peek(q, "src")
        dstBytes       == Peek(q, "dst")
        srcAmountBytes == Peek(q, "src_amount")
        parsed         == ParseInt(srcAmountBytes)
        fail == [poolValue |-> <<>>, srcValue |-> <<>>, dstValue |-> <<>>,
                 srcAmountBig |-> Nil, err |-> ErrorValue(ErrValidation, TRUE)]
    IN IF Len(poolBytes) = 0 THEN fail
       ELSE IF Len(srcBytes) = 0 THEN fail
       ELSE IF Len(dstBytes) = 0 THEN fail
       ELSE IF Len(srcAmountBytes) = 0 THEN fail
       ELSE IF parsed.err # "none" THEN fail
       ELSE IF parsed.neg \/ parsed.abs = <<>> THEN fail
       ELSE [poolValue |-> poolBytes, srcValue |-> srcBytes,
             dstValue |-> dstBytes, srcAmountBig |-> parsed.abs,
             err |-> NoError]

Mapping(st, code) == [HTTPStatus |-> st, Code |-> code]

errorMappings ==
    (ErrValidation :> Mapping(StatusBadRequest, "VALIDATION_ERROR"))
    @@ (ErrInvalidInput :> Mapping(StatusBadRequest, "INVALID_INPUT"))
    @@ (ErrBusinessRule :> Mapping(StatusBadRequest, "BUSINESS_RULE_VIOLATION"))
    @@ (ErrNotFound :> Mapping(StatusNotFound, "NOT_FOUND"))
    @@ (ErrExternalService :> Mapping(StatusBadGateway, "EXTERNAL_SERVICE_ERROR"))
    @@ (ErrTimeout :> Mapping(StatusGatewayTimeout, "TIMEOUT_ERROR"))
    @@ (ErrInternal :> Mapping(StatusInternalServerError, "INTERNAL_ERROR"))

\* handleError looks the error value itself up in errorMappings: a wrapper
\* made by fmt.Errorf is not a key of the map, whatever it wraps
handleError(e) ==
    LET found   == ~e.wrapped /\ e.is \in DOMAIN errorMappings
        mapping == IF found THEN errorMappings[e.is]
                   ELSE Mapping(StatusInternalServerError, "UNKNOWN_ERROR")
    IN [status |-> mapping.HTTPStatus, contentType |-> "application/json",
        body |-> <<mapping.Code>>]

\* a query parameter the request does not carry
Absent == <<"">>

QueryOf(pa, st, dt, amt) ==
    SelectSeq(<< <<"pool", pa>>, <<"src", st>>, <<"dst", dt>>,
                 <<"src_amount", amt>> >>,
              LAMBDA kv : kv[2] # Absent)

AddressArgs == {Absent, <<>>, <<"0", "x", "1">>}

AmountStrings ==
    {<<>>,
     <<"0">>,
     <<"1">>,
     <<"-", "1">>,
     <<"+", "5">>,
     <<"1", ".", "5">>,
     <<"a", "b", "c">>,
     <<"0", "0", "7">>,
     <<"1", "0", "0", "0">>,
     <<"9", "9", "9", "9", "9", "9", "9", "9", "9", "9", "9", "9", "9", "9", "9", "9", "9", "9">>,
     <<"9", "2", "2", "3", "3", "7", "2", "0", "3", "6", "8", "5", "4", "7", "7", "5", "8", "0", "7">>,
     <<"9", "2", "2", "3", "3", "7", "2", "0", "3", "6", "8", "5", "4", "7", "7", "5", "8", "0", "8">>,
     <<"1", "0", "0", "0", "0", "0", "0", "0", "0", "0", "0", "0", "0", "0", "0", "0", "0", "0", "0", "0", "0">>}

\* what the estimation service returns: an amount, or an error (wrapping a
\* sentinel as the use case does, a sentinel itself, or a plain error)
LargeAmount == natLsh(natOf(1), 64)

ServiceOutcomes ==
    {[amount |-> a, err |-> NoError] : a \in {<<>>, natOf(996), LargeAmount}}
    \cup {[amount |-> Nil, err |-> e] :
             e \in {ErrorValue(ErrValidation, TRUE),
                    ErrorValue(ErrExternalService, TRUE),
                    ErrorValue(ErrNotFound, FALSE),
                    ErrorValue("other", FALSE)}}

InitHandler ==
    /\ MathIdle /\ DecIdle /\ EstIdle /\ OrdIdle /\ PoolIdle
    /\ LimIdle /\ SrvIdle /\ SlotIdle
    /\ hpc = "start"
    /\ \E pa \in AddressArgs, st \in AddressArgs, dt \in AddressArgs,
          amt \in AmountStrings \cup {Absent} :
          query = QueryOf(pa, st, dt, amt)
    /\ \E out \in ServiceOutcomes :
          svcAmount = out.amount /\ svcError = out.err
    /\ svcArg = Nil
    /\ herr = NoError
    /\ response = [status |-> StatusOK,
                   contentType |-> "text/plain; charset=utf-8", body |-> <<>>]

handlerOther ==
    <<mathVars, decVars, estVars, ordVars, poolVars, limVars, srvVars,
      slotVars, query, svcAmount, svcError>>

\* EstimateSwapAmount up to the call of the service (estimate.go:42-48)
HandlerParseParams ==
    /\ hpc = "start"
    /\ LET r == parseEstimateParams(query)
       IN IF r.err # NoError
          THEN /\ herr' = r.err
               /\ response' = handleError(r.err)
               /\ hpc' = "done"
               /\ UNCHANGED svcArg
          ELSE /\ svcArg' = r.srcAmountBig
               /\ hpc' = "parsed"
               /\ UNCHANGED <<herr, response>>
    /\ UNCHANGED handlerOther

\* the service returns and the handler writes the response
\* (estimate.go:48-60)
HandlerRespond ==
    /\ hpc = "parsed"
    /\ IF svcError # NoError
       THEN /\ herr' = svcError
            /\ response' = handleError(svcError)
       ELSE /\ response' = [response EXCEPT !.contentType = "text/plain",
                                            !.body = BigIntString(svcAmount)]
            /\ UNCHANGED herr
    /\ hpc' = "done"
    /\ UNCHANGED <<handlerOther, svcArg>>

NextHandler ==
    \/ HandlerParseParams
    \/ HandlerRespond

SpecHandler == InitHandler /\ [][NextHandler]_vars

IsDecimal(s) == s # <<>> /\ \A i \in 1 .. Len(s) : IsDigit(s[i])

IsPositiveDecimal(s) == IsDecimal(s) /\ \E i \in 1 .. Len(s) : s[i] # "0"

RECURSIVE StripZeros(_)
StripZeros(s) ==
    IF Len(s) > 1 /\ s[1] = "0" THEN StripZeros(Tail(s)) ELSE s

AddressesPresent ==
    /\ Peek(query, "pool") # <<>>
    /\ Peek(query, "src") # <<>>
    /\ Peek(query, "dst") # <<>>

\* C23: when pool, src and dst are present and src_amount is a positive
\* decimal integer of any magnitude, the handler passes exactly that amount
\* to the service and, when the service succeeds, responds with status 200,
\* content type text/plain and the decimal rendering of the amount returned.
C23_PassesAmountAndRenders ==
    (hpc \in {"parsed", "done"} /\ AddressesPresent
       /\ IsPositiveDecimal(Peek(query, "src_amount")))
    => /\ svcArg # Nil
       /\ BigIntString(svcArg) = StripZeros(Peek(query, "src_amount"))
       /\ (hpc = "done" /\ svcError = NoError) =>
             /\ response.status = StatusOK
             /\ response.contentType = "text/plain"
             /\ IsDecimal(response.body)
             /\ StripZeros(response.body) = response.body
             /\ natFromDecimal(response.body) = svcAmount

\* src_amount is an integer (an optional sign and decimal digits) above zero
IsPositiveInteger(s) ==
    \/ IsPositiveDecimal(s)
    \/ s # <<>> /\ s[1] = "+" /\ IsPositiveDecimal(Tail(s))

\* C24: a request in which pool, src, dst or src_amount is missing or
\* empty, or src_amount is not a decimal integer, or is zero or negative, is
\* answered 400 Bad Request.
C24_InvalidRequestIs400 ==
    (hpc = "done"
       /\ (~AddressesPresent \/ ~IsPositiveInteger(Peek(query, "src_amount"))))
    => response.status = StatusBadRequest

(***************************************************************************)
(* Rate limiter: one RateLimitMiddleware instance serving concurrent       *)
(* requests.  A request reads the clock, then runs the body of             *)
(* checkRateLimit under clientsMux, which it holds until it returns.       *)
(* Time is in seconds.                                                     *)
(***************************************************************************)
Minute == 60

MaxRPM == 2
MaxRequests == 4

\* the instants at which the clock is read
Instants == {0, 1, 31, 61, 62}

ClientIPs == {"10.0.0.1", "10.0.0.2"}

\* make(map[string]*ClientRateLimit)
NoClients == [ip \in {} |-> 0]

\* checkRateLimit after now := time.Now(): the map of clients it leaves and
\* whether the request is allowed
checkRateLimit(cl, clientIP, now, limit) ==
    IF clientIP \notin DOMAIN cl
    THEN [clients |-> cl @@ (clientIP :> [requests |-> 1, lastRequest |-> now]),
          ok |-> TRUE]
    ELSE LET client == cl[clientIP]
         IN IF now - client.lastRequest > Minute
            THEN [clients |-> [cl EXCEPT ![clientIP] =
                                  [requests |-> 1, lastRequest |-> now]],
                  ok |-> TRUE]
            ELSE IF client.requests >= limit
            THEN [clients |-> cl, ok |-> FALSE]
            ELSE [clients |-> [cl EXCEPT ![clientIP] =
                                  [requests |-> client.requests + 1,
                                   lastRequest |-> now]],
                  ok |-> TRUE]

InitLimiter ==
    /\ MathIdle /\ DecIdle /\ EstIdle /\ OrdIdle /\ PoolIdle
    /\ HttpIdle /\ SrvIdle /\ SlotIdle
    /\ clock = 0
    /\ rpm \in 1 .. MaxRPM
    /\ clients = NoClients
    /\ reqs = <<>>

limiterOther ==
    <<mathVars, decVars, estVars, ordVars, poolVars, httpVars, srvVars,
      slotVars, rpm>>

\* time passes
Tick ==
    /\ \E t \in Instants : t > clock /\ clock' = t
    /\ UNCHANGED <<limiterOther, clients, reqs>>

\* a request of client ip enters checkRateLimit: now := time.Now()
ReadNow(ip) ==
    /\ Len(reqs) < MaxRequests
    /\ reqs' = Append(reqs, [ip |-> ip, now |-> clock, st |-> "timed"])
    /\ UNCHANGED <<limiterOther, clock, clients>>

\* request i takes clientsMux and runs the rest of checkRateLimit
CheckRateLimit(i) ==
    /\ reqs[i].st = "timed"
    /\ LET r == checkRateLimit(clients, reqs[i].ip, reqs[i].now, rpm)
       IN /\ clients' = r.clients
          /\ reqs' = [reqs EXCEPT
                        ![i].st = IF r.ok THEN "allowed" ELSE "rejected"]
    /\ UNCHANGED <<limiterOther, clock>>

NextLimiter ==
    \/ Tick
    \/ \E ip \in ClientIPs : ReadNow(ip)
    \/ \E i \in 1 .. Len(reqs) : CheckRateLimit(i)

SpecLimiter == InitLimiter /\ [][NextLimiter]_vars

RequestsOf(ip) == {i \in 1 .. Len(reqs) : reqs[i].ip = ip}

\* the requests of ip that were allowed and read the clock in [t, t + 60)
AllowedInWindow(ip, t) ==
    {i \in RequestsOf(ip) :
        /\ reqs[i].st = "allowed"
        /\ t <= reqs[i].now /\ reqs[i].now < t + Minute}

\* C28: for one instance and one client IP, at most RequestsPerMinute
\* requests are allowed in any 60-second window, under every interleaving
\* of the requests; and the count of a client grows only with that
\* client's own allowed requests.
C28_AtMostLimitPerWindow ==
    \A ip \in ClientIPs :
       /\ \A t \in Instants : Cardinality(AllowedInWindow(ip, t)) <= rpm
       /\ ip \in DOMAIN clients =>
             clients[ip].requests
                <= Cardinality({i \in RequestsOf(ip) : reqs[i].st = "allowed"})

\* the requests of ip that read the clock in [t, t + 60]
SentInWindow(ip, t) ==
    {i \in RequestsOf(ip) : t <= reqs[i].now /\ reqs[i].now <= t + Minute}

Compliant(ip) ==
    \A t \in Instants : Cardinality(SentInWindow(ip, t)) <= rpm

\* C29: a client IP that sends at most RequestsPerMinute requests in every
\* 60-second window has none of its requests rejected.
C29_CompliantNeverRejected ==
    \A ip \in ClientIPs :
       Compliant(ip) => \A i \in RequestsOf(ip) : reqs[i].st # "rejected"

(***************************************************************************)
(* The server process: the main routine waits for a signal or a server     *)
(* error, the health-check goroutine polls the connection pool until it    *)
(* receives from the same signal channel, and the HTTP server routes each  *)
(* request through setupRouter.                                            *)
(***************************************************************************)
MaxSignals == 2
MaxHealthChecks == 1
MaxServed == 2

StatusTooManyRequests == 429

Paths == {"/estimate", "/other"}

InitServer ==
    /\ MathIdle /\ DecIdle /\ EstIdle /\ OrdIdle /\ PoolIdle
    /\ HttpIdle /\ SlotIdle
    /\ clock = 0
    /\ rpm \in 1 .. MaxRPM
    /\ clients = NoClients
    /\ reqs = <<>>
    /\ mainpc = "select"
    /\ healthpc = "select"
    /\ quit = 0 /\ serverError = 0
    /\ srv = "starting"
    /\ healthCheckDone = FALSE /\ ethClosed = FALSE
    /\ sigCount = 0 /\ healthChecks = 0
    /\ served = <<>>

serverOther ==
    <<mathVars, decVars, estVars, ordVars, poolVars, httpVars, slotVars,
      rpm, clients, reqs>>

\* server.ListenAndServe: the server accepts connections, or fails and the
\* goroutine sends the error on serverError
ListenAndServe ==
    /\ srv = "starting"
    /\ \/ srv' = "serving" /\ UNCHANGED serverError
       \/ srv' = "failed" /\ serverError' = 1
    /\ UNCHANGED <<serverOther, clock, mainpc, healthpc, quit,
                   healthCheckDone, ethClosed, sigCount, healthChecks, served>>

\* SIGINT or SIGTERM: signal.Notify sends on quit without blocking, and
\* drops the signal when the buffer of one is full
Signal ==
    /\ mainpc # "exited"
    /\ sigCount < MaxSignals
    /\ sigCount' = sigCount + 1
    /\ quit' = 1
    /\ UNCHANGED <<serverOther, clock, mainpc, healthpc, serverError, srv,
                   healthCheckDone, ethClosed, healthChecks, served>>

\* case <-ticker.C of the health-check goroutine
HealthTick ==
    /\ healthpc = "select"
    /\ healthChecks < MaxHealthChecks
    /\ healthChecks' = healthChecks + 1
    /\ UNCHANGED <<serverOther, clock, mainpc, healthpc, quit, serverError,
                   srv, healthCheckDone, ethClosed, sigCount, served>>

\* case <-quit of the health-check goroutine: it returns and its deferred
\* close(healthCheckDone) runs
HealthReceiveQuit ==
    /\ healthpc = "select"
    /\ quit = 1
    /\ quit' = 0
    /\ healthpc' = "stopped"
    /\ healthCheckDone' = TRUE
    /\ UNCHANGED <<serverOther, clock, mainpc, serverError, srv, ethClosed,
                   sigCount, healthChecks, served>>

\* case <-quit of the main routine
MainReceiveQuit ==
    /\ mainpc = "select"
    /\ quit = 1
    /\ quit' = 0
    /\ mainpc' = "shutdown"
    /\ UNCHANGED <<serverOther, clock, healthpc, serverError, srv,
                   healthCheckDone, ethClosed, sigCount, healthChecks, served>>

\* case err := <-serverError of the main routine
MainReceiveServerError ==
    /\ mainpc = "select"
    /\ serverError = 1
    /\ serverError' = 0
    /\ mainpc' = "shutdown"
    /\ UNCHANGED <<serverOther, clock, healthpc, quit, srv, healthCheckDone,
                   ethClosed, sigCount, healthChecks, served>>

\* server.ShutdownWithContext
ServerShutdown ==
    /\ mainpc = "shutdown"
    /\ srv' = "stopped"
    /\ mainpc' = "waitHealth"
    /\ UNCHANGED <<serverOther, clock, healthpc, quit, serverError,
                   healthCheckDone, ethClosed, sigCount, healthChecks, served>>

\* the main routine waits for healthCheckDone, for five seconds at most
MainWaitHealth ==
    /\ mainpc = "waitHealth"
    /\ mainpc' = "close"
    /\ UNCHANGED <<serverOther, clock, healthpc, quit, serverError, srv,
                   healthCheckDone, ethClosed, sigCount, healthChecks, served>>

\* ethClient.Close, and the process ends with the main routine
CloseEthereum ==
    /\ mainpc = "close"
    /\ ethClosed' = TRUE
    /\ mainpc' = "exited"
    /\ healthpc' = "stopped"
    /\ UNCHANGED <<serverOther, clock, quit, serverError, srv,
                   healthCheckDone, sigCount, healthChecks, served>>

\* the handler setupRouter returns, called with a request of client ip for
\* path: for /estimate it calls ApplyMiddleware, which makes a new
\* RateLimitMiddleware, and runs the handler that returns
Route(ip, path) ==
    /\ srv = "serving"
    /\ Len(served) < MaxServed
    /\ IF path = "/estimate"
       THEN LET rateLimitMiddleware == NoClients
                allowed == checkRateLimit(rateLimitMiddleware, ip, clock, rpm).ok
            IN IF allowed
               THEN \E st \in {StatusOK, StatusInternalServerError} :
                       served' = Append(served,
                          [ip |-> ip, path |-> path, now |-> clock,
                           status |-> st, invoked |-> TRUE])
               ELSE served' = Append(served,
                          [ip |-> ip, path |-> path, now |-> clock,
                           status |-> StatusTooManyRequests,
                           invoked |-> FALSE])
       ELSE served' = Append(served,
                [ip |-> ip, path |-> path, now |-> clock,
                 status |-> StatusNotFound, invoked |-> FALSE])
    /\ UNCHANGED <<serverOther, clock, mainpc, healthpc, quit, serverError,
                   srv, healthCheckDone, ethClosed, sigCount, healthChecks>>

MainStep ==
    \/ MainReceiveQuit
    \/ MainReceiveServerError
    \/ ServerShutdown
    \/ MainWaitHealth
    \/ CloseEthereum

NextServer ==
    \/ ListenAndServe
    \/ Signal
    \/ HealthTick
    \/ HealthReceiveQuit
    \/ MainReceiveQuit
    \/ MainReceiveServerError
    \/ ServerShutdown
    \/ MainWaitHealth
    \/ CloseEthereum
    \/ Tick
    \/ \E ip \in ClientIPs, path \in Paths : Route(ip, path)

SpecServer == InitServer /\ [][NextServer]_vars

\* every goroutine that can take a step eventually takes one; the signal,
\* the clock and the clients are not obliged to anything
SpecServerFair ==
    /\ SpecServer
    /\ WF_vars(MainStep)
    /\ WF_vars(HealthReceiveQuit)
    /\ WF_vars(ListenAndServe)

\* C26: once a signal has been delivered while the server is running, the
\* main routine eventually leaves its wait, shuts the HTTP server down and
\* closes the Ethereum connection pool.
C26_ShutdownLiveness ==
    (sigCount > 0 /\ srv = "serving")
        ~> (mainpc = "exited" /\ srv = "stopped" /\ ethClosed)

\* the requests to /estimate of client ip, in the order they were served
EstimateRequests(ip) ==
    SelectSeq(served, LAMBDA e : e.ip = ip /\ e.path = "/estimate")

\* C27: once RequestsPerMinute requests to /estimate of one client IP have
\* been accepted with less than a minute between consecutive requests, the
\* next request of that IP within the minute is answered 429 and the
\* estimate handler is not invoked.
C27_LimitEnforced ==
    \A ip \in ClientIPs :
       LET mine == EstimateRequests(ip)
       IN \A n \in 1 .. Len(mine) :
             (/\ n > rpm
              /\ \A j \in (n - rpm) .. (n - 1) :
                    /\ mine[j].status # StatusTooManyRequests
                    /\ mine[j + 1].now - mine[j].now < Minute)
             => /\ mine[n].status = StatusTooManyRequests
                /\ ~mine[n].invoked

====
